---- MODULE Spec2Model ----
(***************************************************************************)
(* A model of YAL's bytecode compiler (compiler package), its symbol table *)
(* and its stack VM (vm package).  A program is an AST; Compile turns it   *)
(* into instruction bytes and a constant pool; Run is the fetch-decode-    *)
(* execute loop, one action per case of its switch.                        *)
(***************************************************************************)
EXTENDS Integers, Sequences, FiniteSets, TLC

(***************************************************************************)
(* vm package constants                                                    *)
(***************************************************************************)
StackSize == 2048
GlobalsSize == 65536
FramesSize == 1024

(***************************************************************************)
(* bytecode package: opcodes (iota order) and Make                         *)
(***************************************************************************)
OpPush == 0
OpAdd == 1
OpSub == 2
OpMul == 3
OpDiv == 4
OpPushTrue == 5
OpPushFalse == 6
OpEqual == 7
OpNotEqual == 8
OpGT == 9
OpNegateBoolean == 10
OpNegateNumber == 11
OpJumpIfFalse == 12
OpJump == 13
OpPushNull == 14
OpSetGlobal == 15
OpGetGlobal == 16
OpArray == 17
OpHash == 18
OpIndex == 19
OpCall == 20
OpReturnValue == 21
OpSetLocal == 22
OpGetLocal == 23
OpGetBuiltIn == 24
OpGetFree == 25
OpClosure == 26
OpGetCurrentClosure == 27

\* opcodes whose single operand Make writes as two big-endian bytes
TwoByteOps == {OpPush, OpJumpIfFalse, OpJump, OpSetGlobal, OpGetGlobal,
               OpArray, OpHash, OpSetLocal, OpGetLocal}
\* opcodes whose single operand Make writes as one byte
OneByteOps == {OpCall, OpGetBuiltIn, OpGetFree}
\* opcodes without operands
NoOperandOps == {OpAdd, OpSub, OpMul, OpDiv, OpPushTrue, OpPushFalse, OpEqual,
                 OpNotEqual, OpGT, OpNegateBoolean, OpNegateNumber, OpPushNull,
                 OpIndex, OpReturnValue, OpGetCurrentClosure}

\* binary.BigEndian.PutUint16(b, uint16(v))
PutUint16(v) == << (v % 65536) \div 256, v % 256 >>

\* binary.BigEndian.Uint16(ins[off:]) for a 0-based offset off
ReadUint16(ins, off) == ins[off + 1] * 256 + ins[off + 2]

\* ins[off] for a 0-based offset off
ByteAt(ins, off) == ins[off + 1]

\* bytecode.Make: the opcode byte followed by the encoded operands
Make(opCode, operands) ==
    IF opCode \in TwoByteOps THEN <<opCode>> \o PutUint16(operands[1])
    ELSE IF opCode \in NoOperandOps THEN <<opCode>>
    ELSE IF opCode \in OneByteOps THEN <<opCode, operands[1] % 256>>
    ELSE IF opCode = OpClosure
         THEN <<opCode>> \o PutUint16(operands[1]) \o <<operands[2] % 256>>
    ELSE << >>

(***************************************************************************)
(* ast package: nodes.  Every node is a record [kind, name, val, kids].    *)
(***************************************************************************)
Node(kind, name, val, kids) == [kind |-> kind, name |-> name, val |-> val, kids |-> kids]
Program(stmts) == Node("Program", "", 0, stmts)
BlockStatement(stmts) == Node("BlockStatement", "", 0, stmts)
LetStatement(name, right) == Node("LetStatement", name, 0, <<right>>)
ReturnStatement(value) == Node("ReturnStatement", "", 0, <<value>>)
ExpressionStatement(expr) == Node("ExpressionStatement", "", 0, <<expr>>)
IntegerLiteral(v) == Node("IntegerLiteral", "", v, << >>)
StringLiteral(s) == Node("StringLiteral", s, 0, << >>)
BooleanLiteral(b) == Node("BooleanLiteral", "", IF b THEN 1 ELSE 0, << >>)
Identifier(name) == Node("Identifier", name, 0, << >>)
PrefixExpression(op, right) == Node("PrefixExpression", op, 0, <<right>>)
InfixExpression(left, op, right) == Node("InfixExpression", op, 0, <<left, right>>)
\* kids = <<Condition, Consequence>> or <<Condition, Consequence, Alternative>>
IfElseConditional(cond, cons, alt) == Node("IfElseConditional", "", 0, <<cond, cons>> \o alt)
\* name = Name (set by the enclosing let), kids = <<parameters, Body>>
FunctionLiteral(params, body) ==
    Node("FunctionLiteral", "", 0, <<Node("Parameters", "", 0, [i \in 1..Len(params) |-> Identifier(params[i])]), body>>)
\* kids = <<Function, Arguments...>>
CallExpression(fn, args) == Node("CallExpression", "", 0, <<fn>> \o args)
ArrayLiteral(elems) == Node("ArrayLiteral", "", 0, elems)
\* kids = <<k1, v1, k2, v2, ...>> in the order the range over Pairs yields them
HashLiteral(kvs) == Node("HashLiteral", "", 0, kvs)
IndexExpression(left, index) == Node("IndexExpression", "", 0, <<left, index>>)

(***************************************************************************)
(* object package: runtime values                                          *)
(***************************************************************************)
Nil == [t |-> "nil"]
NULL == [t |-> "NULL"]
TRUE_ == [t |-> "BOOLEAN", v |-> TRUE]
FALSE_ == [t |-> "BOOLEAN", v |-> FALSE]
Integer(n) == [t |-> "INTEGER", v |-> n]
String(s) == [t |-> "STRING", v |-> s]
Array(elems) == [t |-> "ARRAY", v |-> elems]
\* Pairs as a sequence of <<HashKey, value>> in insertion order of distinct keys
Hash(pairs) == [t |-> "HASH", v |-> pairs]
BuiltinFunction(idx) == [t |-> "BUILTIN_FUNCTION", v |-> idx]
CompiledFunction(ins, numLocals) == [t |-> "COMPILED_FUNCTION", Instructions |-> ins, NumLocals |-> numLocals]
\* A Closure object.  Fn points to a CompiledFunction: its constant-pool index, or
\* MainFn for the function NewStackVM wraps the top-level instructions in.
Closure(fn, freeStore) == [Fn |-> fn, FreeStore |-> freeStore]
MainFn == -1
\* A *Closure: the index of the Closure object in the heap of closures
ClosureRef(ref) == [t |-> "CLOSURE", ref |-> ref]

\* a truthiness that also takes the integer 0 for false
IsTruthyNonZero(obj) ==
    ~(obj.t = "NULL" \/ (obj.t = "BOOLEAN" /\ obj = FALSE_) \/ (obj.t = "INTEGER" /\ obj.v = 0))

\* NULL and FALSE are singletons, so `switch obj { case NULL, FALSE: ...` compares
\* the type first and then the value
IsTruthy(obj) == ~(obj.t = "NULL" \/ (obj.t = "BOOLEAN" /\ obj = FALSE_))
getBooleanObject(b) == IF b THEN TRUE_ ELSE FALSE_

(***************************************************************************)
(* compiler package: the symbol table.  Tables live in a heap `tables`     *)
(* (a sequence); a *SymbolTable is an index into it, 0 is the nil pointer. *)
(***************************************************************************)
GLOBAL == "global"
\* LOCAL is a reserved word of TLA+
LOCAL_ == "local"
BUILTIN == "builtin"
FREE == "free"
FUNCTION == "function"

Symbol(name, index, scope) == [Name |-> name, Index |-> index, Scope |-> scope]
NoSymbol == Symbol("", 0, "")

builtInNames == <<"len", "first", "last", "rest", "push", "puts">>
builtInSymbols == [n \in {builtInNames[i] : i \in 1..Len(builtInNames)} |->
                     Symbol(n, (CHOOSE i \in 1..Len(builtInNames) : builtInNames[i] = n) - 1, BUILTIN)]

EmptyStore == [n \in {} |-> NoSymbol]
StorePut(store, name, sym) == (name :> sym) @@ store

NewSymbolTable(outer) == [store |-> EmptyStore, outer |-> outer, freeSymbols |-> << >>]

\* the number of entries of table.store
len(table) == Cardinality(DOMAIN table.store)

\* SymbolTable.Define on table t: <<tables', symbol>>
Define(tables, t, identifier) ==
    IF identifier \in DOMAIN tables[t].store
    THEN <<tables, tables[t].store[identifier]>>
    ELSE LET symbol == Symbol(identifier, len(tables[t]),
                              IF tables[t].outer = 0 THEN GLOBAL ELSE LOCAL_)
         IN <<[tables EXCEPT ![t].store = StorePut(@, identifier, symbol)], symbol>>

\* a variant of DefineFunctionSymbol that defines the name like any other name
DefineFunctionSymbolAsLocal(tables, t, name) == Define(tables, t, name)

\* SymbolTable.DefineFunctionSymbol on table t: <<tables', symbol>>
DefineFunctionSymbol(tables, t, name) ==
    LET symbol == Symbol(name, len(tables[t]), FUNCTION)
    IN <<[tables EXCEPT ![t].store = StorePut(@, name, symbol)], symbol>>

\* defineFree that appends to freeSymbols and leaves the store alone
defineFreeUnstored(tables, t, symbol) ==
    LET fs == Append(tables[t].freeSymbols, symbol)
    IN <<[tables EXCEPT ![t].freeSymbols = fs], Symbol(symbol.Name, Len(fs) - 1, FREE)>>

\* SymbolTable.defineFree on table t: <<tables', freeSymbol>>
defineFree(tables, t, symbol) ==
    LET fs == Append(tables[t].freeSymbols, symbol)
        freeSymbol == Symbol(symbol.Name, Len(fs) - 1, FREE)
    IN <<[tables EXCEPT ![t].freeSymbols = fs,
                        ![t].store = StorePut(@, freeSymbol.Name, freeSymbol)], freeSymbol>>

\* SymbolTable.Lookup on table t: <<tables', symbol, ok>>
RECURSIVE Lookup(_, _, _)
Lookup(tables, t, identifier) ==
    IF identifier \in DOMAIN tables[t].store
    THEN <<tables, tables[t].store[identifier], TRUE>>
    ELSE IF tables[t].outer # 0
    THEN LET r == Lookup(tables, tables[t].outer, identifier)
         IN IF r[2].Scope = LOCAL_ \/ r[2].Scope = FREE
            THEN LET d == defineFree(r[1], t, r[2]) IN <<d[1], d[2], r[3]>>
            ELSE r
    ELSE IF identifier \in DOMAIN builtInSymbols
    THEN <<tables, builtInSymbols[identifier], TRUE>>
    ELSE <<tables, NoSymbol, FALSE>>

(***************************************************************************)
(* compiler package: the compiler.  A Compiler is a record                 *)
(*   scopes, activeScopeIdx, constantPool, tables (heap), symbolTable, err *)
(* err = "" while no Compile call has returned an error.  The field fns is *)
(* a log kept for stating properties: one entry per compiled function      *)
(* literal, naming its constant, its symbol table and its Name.  The      *)
(* field rangeOrder is the iteration order Go takes for the maps this      *)
(* compilation ranges over.                                                *)
(***************************************************************************)
NewCompilationScope == [instructions |-> << >>, lastAddedInsOffset |-> 0]

\* compiler.New, with the symbol-table heap and constant pool it starts from
New(tables, symbolTable, constantPool) ==
    [scopes |-> <<NewCompilationScope>>, activeScopeIdx |-> 0,
     constantPool |-> constantPool, tables |-> tables,
     symbolTable |-> symbolTable, err |-> "", fns |-> << >>, rangeOrder |-> 0]

ActiveScope(c) == c.scopes[c.activeScopeIdx + 1]

\* an addConstant that puts the constant in front of the pool
addConstantInFront(c, obj) ==
    <<[c EXCEPT !.constantPool = <<obj>> \o @], 0>>

\* addConstant: <<compiler', index>>
addConstant(c, obj) ==
    <<[c EXCEPT !.constantPool = Append(@, obj)], Len(c.constantPool)>>

addInstruction(c, ins) ==
    [c EXCEPT !.scopes[c.activeScopeIdx + 1] =
        [instructions |-> @.instructions \o ins,
         lastAddedInsOffset |-> Len(@.instructions)]]

\* a variant of modifyInstruction whose copy is lost
modifyInstructionLost(c, offset, newInstruction) == c

\* copy(instructions[offset:], newInstruction)
modifyInstruction(c, offset, newInstruction) ==
    [c EXCEPT !.scopes[c.activeScopeIdx + 1].instructions =
        IF offset + Len(newInstruction) >= Len(@)
        THEN SubSeq(@, 1, offset) \o SubSeq(newInstruction, 1, Len(@) - offset)
        ELSE SubSeq(@, 1, offset) \o newInstruction
                 \o SubSeq(@, offset + Len(newInstruction) + 1, Len(@))]

emit(c, op, operands) == addInstruction(c, Make(op, operands))

enterScope(c) ==
    [c EXCEPT !.scopes = Append(@, NewCompilationScope),
              !.activeScopeIdx = @ + 1]

exitScope(c) ==
    [c EXCEPT !.scopes = SubSeq(@, 1, c.activeScopeIdx),
              !.activeScopeIdx = @ - 1]

loadSymbol(c, symbol) ==
    IF symbol.Scope = GLOBAL THEN emit(c, OpGetGlobal, <<symbol.Index>>)
    ELSE IF symbol.Scope = LOCAL_ THEN emit(c, OpGetLocal, <<symbol.Index>>)
    ELSE IF symbol.Scope = BUILTIN THEN emit(c, OpGetBuiltIn, <<symbol.Index>>)
    ELSE IF symbol.Scope = FREE THEN emit(c, OpGetFree, <<symbol.Index>>)
    ELSE IF symbol.Scope = FUNCTION THEN emit(c, OpGetCurrentClosure, << >>)
    ELSE c

storeSymbol(c, symbol) ==
    IF symbol.Scope = GLOBAL THEN emit(c, OpSetGlobal, <<symbol.Index>>)
    ELSE emit(c, OpSetLocal, <<symbol.Index>>)

\* the loop "for _, symbol := range freeSymbols { loadSymbol(symbol) }"
RECURSIVE loadSymbols(_, _, _)
loadSymbols(c, symbols, i) ==
    IF i > Len(symbols) THEN c
    ELSE loadSymbols(loadSymbol(c, symbols[i]), symbols, i + 1)

\* the loop "for _, param := range n.Parameters { Define(param.Value) }"
RECURSIVE defineParameters(_, _, _)
defineParameters(c, params, i) ==
    IF i > Len(params) THEN c
    ELSE defineParameters(
            [c EXCEPT !.tables = Define(c.tables, c.symbolTable, params[i].name)[1]],
            params, i + 1)

InfixOpCode(operator) ==
    CASE operator = "+" -> OpAdd
      [] operator = "-" -> OpSub
      [] operator = "*" -> OpMul
      [] operator = "/" -> OpDiv
      [] operator = "==" -> OpEqual
      [] operator = "!=" -> OpNotEqual
      [] operator = ">" -> OpGT
      [] OTHER -> -1

\* The largest iteration order of a map the model draws.  Go leaves the
\* order of `range` over a map unspecified; order k yields the pairs of a
\* hash literal rotated by k, order 0 as written.
MaxRangeOrder == 1
RangeOrders == 0..MaxRangeOrder

\* `for k, v := range n.Pairs` under iteration order k: kvs = <<k1, v1, ...>>
Range(kvs, order) ==
    LET n == Len(kvs) \div 2
        r == IF n = 0 THEN 0 ELSE order % n
    IN SubSeq(kvs, 2 * r + 1, Len(kvs)) \o SubSeq(kvs, 1, 2 * r)

RECURSIVE Compile(_, _)
RECURSIVE CompileEach(_, _, _)

\* a CompileEach that takes the nodes in the order of a map iteration
RECURSIVE CompileEachRanged(_, _, _)
CompileEachRanged(c, nodes, i) ==
    IF i > Len(nodes) \/ c.err # "" THEN c
    ELSE LET k == ((i - 1 + c.rangeOrder) % Len(nodes)) + 1
         IN CompileEachRanged(Compile(c, nodes[k]), nodes, i + 1)

\* "for each node: err := Compile(node); if err != nil { return err }"
CompileEach(c, nodes, i) ==
    IF i > Len(nodes) \/ c.err # "" THEN c
    ELSE CompileEach(Compile(c, nodes[i]), nodes, i + 1)

CompileLetStatement(c, n) ==
    IF n.kids[1].kind = "FunctionLiteral"
    THEN LET d == Define(c.tables, c.symbolTable, n.name)
             c1 == Compile([c EXCEPT !.tables = d[1]], [n.kids[1] EXCEPT !.name = n.name])
         IN IF c1.err # "" THEN c1 ELSE storeSymbol(c1, d[2])
    ELSE LET c1 == Compile(c, n.kids[1])
         IN IF c1.err # "" THEN c1
            ELSE LET d == Define(c1.tables, c1.symbolTable, n.name)
                 IN storeSymbol([c1 EXCEPT !.tables = d[1]], d[2])

CompileIfElseConditional(c, n) ==
    LET a == c.activeScopeIdx + 1
        c1 == Compile(c, n.kids[1])
        c2 == emit(c1, OpJumpIfFalse, <<9999>>)
        conditionalJumpOffset == c2.scopes[a].lastAddedInsOffset
        c3 == Compile(c2, n.kids[2])
        c4 == emit(c3, OpJump, <<9999>>)
        jumpOffset == c4.scopes[a].lastAddedInsOffset
        c5 == modifyInstruction(c4, conditionalJumpOffset,
                  Make(OpJumpIfFalse, <<Len(c4.scopes[a].instructions)>>))
        c6 == IF Len(n.kids) >= 3 THEN Compile(c5, n.kids[3])
              ELSE emit(c5, OpPushNull, << >>)
    IN IF c1.err # "" THEN c1
       ELSE IF c3.err # "" THEN c3
       ELSE IF c6.err # "" THEN c6
       ELSE modifyInstruction(c6, jumpOffset,
                Make(OpJump, <<Len(c6.scopes[a].instructions)>>))

\* the FunctionLiteral case without the implicit return
CompileFunctionLiteralNoImplicitReturn(c, n) ==
    LET c1 == enterScope(c)
        a == c1.activeScopeIdx + 1
        localSymbolTable == Len(c.tables) + 1
        c2 == [c1 EXCEPT !.tables = Append(@, NewSymbolTable(c.symbolTable)),
                         !.symbolTable = localSymbolTable]
        c3 == defineParameters(c2, n.kids[1].kids, 1)
        c4 == IF n.name # ""
              THEN [c3 EXCEPT !.tables = DefineFunctionSymbol(@, localSymbolTable, n.name)[1]]
              ELSE c3
        c5 == Compile(c4, n.kids[2])
        c6 == IF Len(c5.scopes[a].instructions) = 0
              THEN emit(emit(c5, OpPushNull, << >>), OpReturnValue, << >>)
              ELSE c5
        c7 == c6
        compiledInstructions == c7.scopes[a].instructions
        c8 == exitScope([c7 EXCEPT !.symbolTable = c7.tables[localSymbolTable].outer])
        compiledFunctionObj == CompiledFunction(compiledInstructions, len(c8.tables[localSymbolTable]))
        k == addConstant(c8, compiledFunctionObj)
        freeSymbols == c8.tables[localSymbolTable].freeSymbols
        c9 == loadSymbols(k[1], freeSymbols, 1)
        c10 == emit(c9, OpClosure, <<k[2], Len(freeSymbols)>>)
    IN IF c5.err # "" THEN c5
       ELSE [c10 EXCEPT !.fns = Append(@, [constIdx |-> k[2], table |-> localSymbolTable,
                                           name |-> n.name, outer |-> c.symbolTable])]

CompileFunctionLiteral(c, n) ==
    LET c1 == enterScope(c)
        a == c1.activeScopeIdx + 1
        localSymbolTable == Len(c.tables) + 1
        c2 == [c1 EXCEPT !.tables = Append(@, NewSymbolTable(c.symbolTable)),
                         !.symbolTable = localSymbolTable]
        c3 == defineParameters(c2, n.kids[1].kids, 1)
        c4 == IF n.name # ""
              THEN [c3 EXCEPT !.tables = DefineFunctionSymbol(@, localSymbolTable, n.name)[1]]
              ELSE c3
        c5 == Compile(c4, n.kids[2])
        c6 == IF Len(c5.scopes[a].instructions) = 0
              THEN emit(emit(c5, OpPushNull, << >>), OpReturnValue, << >>)
              ELSE c5
        c7 == IF ByteAt(c6.scopes[a].instructions, c6.scopes[a].lastAddedInsOffset) # OpReturnValue
              THEN emit(c6, OpReturnValue, << >>)
              ELSE c6
        compiledInstructions == c7.scopes[a].instructions
        c8 == exitScope([c7 EXCEPT !.symbolTable = c7.tables[localSymbolTable].outer])
        compiledFunctionObj == CompiledFunction(compiledInstructions, len(c8.tables[localSymbolTable]))
        k == addConstant(c8, compiledFunctionObj)
        freeSymbols == c8.tables[localSymbolTable].freeSymbols
        c9 == loadSymbols(k[1], freeSymbols, 1)
        c10 == emit(c9, OpClosure, <<k[2], Len(freeSymbols)>>)
    IN IF c5.err # "" THEN c5
       ELSE [c10 EXCEPT !.fns = Append(@, [constIdx |-> k[2], table |-> localSymbolTable,
                                           name |-> n.name, outer |-> c.symbolTable])]

\* the InfixExpression case compiling the operands of "<" in written order
CompileInfixExpressionInOrder(c, n) ==
    LET c1 == Compile(c, n.kids[1])
        c2 == Compile(c1, n.kids[2])
    IN IF c1.err # "" THEN c1
       ELSE IF c2.err # "" THEN c2
       ELSE IF n.name = "<" THEN emit(c2, OpGT, << >>)
       ELSE IF InfixOpCode(n.name) = -1
            THEN [c2 EXCEPT !.err = "unknown operator"]
       ELSE emit(c2, InfixOpCode(n.name), << >>)

CompileInfixExpression(c, n) ==
    IF n.name = "<"
    THEN LET c1 == Compile(c, n.kids[2])
             c2 == Compile(c1, n.kids[1])
         IN IF c1.err # "" THEN c1
            ELSE IF c2.err # "" THEN c2
            ELSE emit(c2, OpGT, << >>)
    ELSE LET c1 == Compile(c, n.kids[1])
             c2 == Compile(c1, n.kids[2])
         IN IF c1.err # "" THEN c1
            ELSE IF c2.err # "" THEN c2
            ELSE IF InfixOpCode(n.name) = -1
                 THEN [c2 EXCEPT !.err = "unknown operator"]
            ELSE emit(c2, InfixOpCode(n.name), << >>)

CompileIdentifier(c, n) ==
    LET r == Lookup(c.tables, c.symbolTable, n.name)
    IN IF ~r[3] THEN [c EXCEPT !.tables = r[1], !.err = "unknown identifier"]
       ELSE loadSymbol([c EXCEPT !.tables = r[1]], r[2])

\* Compiler.Compile; an error return leaves the compiler as it is at that point
Compile(c, n) ==
    CASE n.kind \in {"Program", "BlockStatement"} -> CompileEach(c, n.kids, 1)
      [] n.kind = "LetStatement" -> CompileLetStatement(c, n)
      [] n.kind = "ReturnStatement" ->
            LET c1 == Compile(c, n.kids[1])
            IN IF c1.err # "" THEN c1 ELSE emit(c1, OpReturnValue, << >>)
      [] n.kind = "ExpressionStatement" -> Compile(c, n.kids[1])
      [] n.kind = "IfElseConditional" -> CompileIfElseConditional(c, n)
      [] n.kind = "ArrayLiteral" ->
            LET c1 == CompileEach(c, n.kids, 1)
            IN IF c1.err # "" THEN c1 ELSE emit(c1, OpArray, <<Len(n.kids)>>)
      [] n.kind = "HashLiteral" ->
            \* for k, v := range Pairs: Compile(v); Compile(k)
            LET kv == Range(n.kids, c.rangeOrder)
                vk == [i \in 1..Len(kv) |->
                          IF i % 2 = 1 THEN kv[i + 1] ELSE kv[i - 1]]
                c1 == CompileEach(c, vk, 1)
            IN IF c1.err # "" THEN c1 ELSE emit(c1, OpHash, <<Len(n.kids) \div 2>>)
      [] n.kind = "IndexExpression" ->
            LET c1 == CompileEach(c, n.kids, 1)
            IN IF c1.err # "" THEN c1 ELSE emit(c1, OpIndex, << >>)
      [] n.kind = "FunctionLiteral" -> CompileFunctionLiteral(c, n)
      [] n.kind = "CallExpression" ->
            LET c1 == CompileEach(c, n.kids, 1)
            IN IF c1.err # "" THEN c1 ELSE emit(c1, OpCall, <<Len(n.kids) - 1>>)
      [] n.kind = "PrefixExpression" ->
            LET c1 == Compile(c, n.kids[1])
            IN IF c1.err # "" THEN c1
               ELSE IF n.name = "!" THEN emit(c1, OpNegateBoolean, << >>)
               ELSE IF n.name = "-" THEN emit(c1, OpNegateNumber, << >>)
               ELSE [c1 EXCEPT !.err = "unknown operator"]
      [] n.kind = "InfixExpression" -> CompileInfixExpression(c, n)
      [] n.kind = "Identifier" -> CompileIdentifier(c, n)
      [] n.kind = "IntegerLiteral" ->
            LET k == addConstant(c, Integer(n.val))
            IN emit(k[1], OpPush, <<k[2]>>)
      [] n.kind = "StringLiteral" ->
            LET k == addConstant(c, String(n.name))
            IN emit(k[1], OpPush, <<k[2]>>)
      [] n.kind = "BooleanLiteral" ->
            IF n.val = 1 THEN emit(c, OpPushTrue, << >>) ELSE emit(c, OpPushFalse, << >>)
      [] OTHER -> c

\* Compiler.Output
Output(c) == [Instructions |-> ActiveScope(c).instructions, ConstantPool |-> c.constantPool]

(***************************************************************************)
(* vm package: the StackVM.  A StackVM is a record                         *)
(*   frames, activeFrameIdx, constantPool, globals, stack, sp              *)
(* plus mainFn, the CompiledFunction NewStackVM wraps the top-level        *)
(* instructions in, closures, the Closure objects allocated so far (a      *)
(* *Closure is an index into it), and fault, "" until the Go runtime       *)
(* panics (index out of range, nil dereference, failed type assertion).    *)
(* stack, globals and frames are Go arrays made with all slots nil; the    *)
(* model stores the prefix up to the highest slot written so far.          *)
(***************************************************************************)
NewFrame(closure, bp) == [closure |-> closure, ip |-> 0, bp |-> bp]

NewStackVM(instructions, constantPool, globals, closures) ==
    [frames |-> <<NewFrame(ClosureRef(Len(closures) + 1), 0)>>,
     activeFrameIdx |-> 0,
     constantPool |-> constantPool,
     globals |-> globals,
     stack |-> << >>,
     sp |-> 0,
     mainFn |-> CompiledFunction(instructions, 0),
     closures |-> Append(closures, Closure(MainFn, << >>)),
     fault |-> ""]

Fault(svm, why) == IF svm.fault = "" THEN [svm EXCEPT !.fault = why] ELSE svm

\* arr[i] of a nil-initialised Go array of the given size (i is 0-based)
ArrayGet(arr, i) == IF i + 1 <= Len(arr) THEN arr[i + 1] ELSE Nil
\* arr[i] = obj
RECURSIVE NilSlots(_)
NilSlots(n) == IF n <= 0 THEN << >> ELSE Append(NilSlots(n - 1), Nil)
ArraySet(arr, i, obj) ==
    IF i + 1 <= Len(arr) THEN [arr EXCEPT ![i + 1] = obj]
    ELSE Append(arr \o NilSlots(i - Len(arr)), obj)

\* svm.stack[i], <<svm', obj>>
StackRead(svm, i) ==
    IF i < 0 \/ i >= StackSize THEN <<Fault(svm, "stack index out of range"), Nil>>
    ELSE <<svm, ArrayGet(svm.stack, i)>>

\* a variant of StackWrite in which closures share the slot they captured:
\* the write also lands in the first free slot of every closure
StackWriteShared(svm, i, obj) ==
    IF i < 0 \/ i >= StackSize THEN Fault(svm, "stack index out of range")
    ELSE [svm EXCEPT !.stack = ArraySet(@, i, obj),
                     !.closures = [r \in 1..Len(svm.closures) |->
                        IF Len(svm.closures[r].FreeStore) > 0
                        THEN [svm.closures[r] EXCEPT !.FreeStore[1] = obj]
                        ELSE svm.closures[r]]]

\* svm.stack[i] = obj
StackWrite(svm, i, obj) ==
    IF i < 0 \/ i >= StackSize THEN Fault(svm, "stack index out of range")
    ELSE [svm EXCEPT !.stack = ArraySet(@, i, obj)]

\* the Closure object a *Closure points to
Deref(svm, closure) == svm.closures[closure.ref]

\* closure.Fn, the CompiledFunction
FnOf(svm, closure) ==
    IF Deref(svm, closure).Fn = MainFn THEN svm.mainFn
    ELSE svm.constantPool[Deref(svm, closure).Fn + 1]

\* closure.FreeStore
FreeStoreOf(svm, closure) == Deref(svm, closure).FreeStore

\* Frame.instructions
instructions(svm, frame) == FnOf(svm, frame.closure).Instructions

\* StackVM.push: <<svm', err>>; err = "" for nil
push(svm, obj) ==
    IF svm.sp >= StackSize THEN <<svm, "stack overflow">>
    ELSE <<[svm EXCEPT !.stack = ArraySet(@, svm.sp, obj), !.sp = @ + 1], "">>

\* StackVM.pop: <<svm', obj>>
pop(svm) ==
    IF svm.sp = 0 THEN <<svm, Nil>>
    ELSE LET r == StackRead(svm, svm.sp - 1)
         IN <<[r[1] EXCEPT !.sp = @ - 1], r[2]>>

\* StackVM.Top: <<svm', obj>>
Top(svm) ==
    IF svm.sp = 0 THEN <<svm, Nil>> ELSE StackRead(svm, svm.sp - 1)

\* StackVM.pushFrame
pushFrame(svm, closure, bp) ==
    IF svm.activeFrameIdx + 1 < 0 \/ svm.activeFrameIdx + 1 >= FramesSize
    THEN Fault(svm, "frames index out of range")
    ELSE [svm EXCEPT !.frames = ArraySet(@, svm.activeFrameIdx + 1, NewFrame(closure, bp)),
                     !.activeFrameIdx = @ + 1]

\* StackVM.popFrame
popFrame(svm) == [svm EXCEPT !.activeFrameIdx = @ - 1]

\* pops count values: <<svm', objs>>, objs[count-1-i] is the i-th popped
RECURSIVE popN(_, _, _)
popN(svm, count, objs) ==
    IF count = 0 THEN <<svm, objs>>
    ELSE LET r == pop(svm) IN popN(r[1], count - 1, <<r[2]>> \o objs)

\* StackVM.buildArray: <<svm', arr>>
buildArray(svm, count) ==
    LET r == popN(svm, count, << >>) IN <<r[1], Array(r[2])>>

\* Go's integer division truncates toward zero
Quotient(l, r) ==
    IF (l >= 0 /\ r > 0) \/ (l <= 0 /\ r < 0)
    THEN (IF l >= 0 THEN l ELSE -l) \div (IF r >= 0 THEN r ELSE -r)
    ELSE -((IF l >= 0 THEN l ELSE -l) \div (IF r >= 0 THEN r ELSE -r))

\* pushes obj and returns nil: <<svm', "">>
PushOk(svm, obj) == <<push(svm, obj)[1], "">>

executeAddBinaryOperation(svm, left, right) ==
    IF left.t = "INTEGER" THEN PushOk(svm, Integer(left.v + right.v))
    ELSE IF left.t = "STRING" THEN PushOk(svm, String(left.v \o right.v))
    ELSE <<svm, "unsupported operand type with '+'">>

executeSubBinaryOperation(svm, left, right) ==
    IF left.t = "INTEGER" THEN PushOk(svm, Integer(left.v - right.v))
    ELSE <<svm, "unsupported operand type with '-'">>

executeMulBinaryOperation(svm, left, right) ==
    IF left.t = "INTEGER" THEN PushOk(svm, Integer(left.v * right.v))
    ELSE <<svm, "unsupported operand type with '*'">>

executeDivBinaryOperation(svm, left, right) ==
    IF left.t = "INTEGER"
    THEN IF right.v = 0 THEN <<svm, "division by zero">>
         ELSE PushOk(svm, Integer(Quotient(left.v, right.v)))
    ELSE <<svm, "unsupported operand type with '/'">>

executeEqualsBinaryOperation(svm, left, right) ==
    IF left.t \in {"INTEGER", "STRING", "BOOLEAN"}
    THEN PushOk(svm, getBooleanObject(left.v = right.v))
    ELSE <<svm, "unsupported operand type with '=='">>

executeNotEqualsBinaryOperation(svm, left, right) ==
    IF left.t \in {"INTEGER", "STRING", "BOOLEAN"}
    THEN PushOk(svm, getBooleanObject(left.v # right.v))
    ELSE <<svm, "unsupported operand type with '!='">>

executeGreaterThanBinaryOperation(svm, left, right) ==
    IF left.t = "INTEGER" THEN PushOk(svm, getBooleanObject(left.v > right.v))
    ELSE <<svm, "unsupported operand type with '>'">>

\* executeBinaryOperation: <<svm', err>>
executeBinaryOperation(svm, opcode) ==
    LET r == pop(svm)
        l == pop(r[1])
        right == r[2]
        left == l[2]
        s2 == l[1]
    IN IF left = Nil \/ right = Nil THEN <<Fault(s2, "nil dereference"), "">>
       ELSE IF left.t # right.t THEN <<s2, "incompatible types">>
       ELSE CASE opcode = OpAdd -> executeAddBinaryOperation(s2, left, right)
              [] opcode = OpSub -> executeSubBinaryOperation(s2, left, right)
              [] opcode = OpMul -> executeMulBinaryOperation(s2, left, right)
              [] opcode = OpDiv -> executeDivBinaryOperation(s2, left, right)
              [] opcode = OpEqual -> executeEqualsBinaryOperation(s2, left, right)
              [] opcode = OpNotEqual -> executeNotEqualsBinaryOperation(s2, left, right)
              [] opcode = OpGT -> executeGreaterThanBinaryOperation(s2, left, right)
              [] OTHER -> <<s2, "">>

executeNegateNumberUnaryOperation(svm, operand) ==
    IF operand.t = "INTEGER" THEN PushOk(svm, Integer(-operand.v))
    ELSE IF operand = Nil THEN <<Fault(svm, "nil dereference"), "">>
    ELSE <<svm, "invalid type with operator '-'">>

executeNegateBooleanUnaryOperation(svm, operand) ==
    IF IsTruthy(operand) THEN PushOk(svm, FALSE_) ELSE PushOk(svm, TRUE_)

\* executeUnaryOperation: <<svm', err>>
executeUnaryOperation(svm, opcode) ==
    LET r == pop(svm)
    IN IF opcode = OpNegateNumber THEN executeNegateNumberUnaryOperation(r[1], r[2])
       ELSE executeNegateBooleanUnaryOperation(r[1], r[2])

\* object.Hashable: Integer, String and Boolean implement HashKey
IsHashable(obj) == obj.t \in {"INTEGER", "STRING", "BOOLEAN"}
\* HashKey{Type, Inspect()}: the type and the value it is printed from
HashKey(obj) == <<obj.t, obj.v>>

\* hash.Pairs[hashKey], <<val, ok>>
RECURSIVE HashGet(_, _, _)
HashGet(pairs, hashKey, i) ==
    IF i > Len(pairs) THEN <<NULL, FALSE>>
    ELSE IF pairs[i][1] = hashKey THEN <<pairs[i][2], TRUE>>
    ELSE HashGet(pairs, hashKey, i + 1)

\* elems[hashKey] = v
HashPut(pairs, hashKey, v) ==
    IF \E i \in 1..Len(pairs) : pairs[i][1] = hashKey
    THEN [pairs EXCEPT ![CHOOSE i \in 1..Len(pairs) : pairs[i][1] = hashKey] = <<hashKey, v>>]
    ELSE Append(pairs, <<hashKey, v>>)

\* the second loop of buildHash over the popped pairs kv = <<k1, v1, k2, v2, ...>>
RECURSIVE hashElems(_, _, _)
hashElems(kv, i, elems) ==
    IF i > Len(kv) THEN <<Hash(elems), "", "">>
    ELSE IF kv[i] = Nil THEN <<Nil, "", "nil dereference">>
    ELSE IF ~IsHashable(kv[i]) THEN <<Nil, "key type is not hashable", "">>
    ELSE hashElems(kv, i + 2, HashPut(elems, HashKey(kv[i]), kv[i + 1]))

\* popPairs for an operand that counts stack items, two per pair
RECURSIVE popPairsOfItems(_, _, _)
popPairsOfItems(svm, items, kv) ==
    IF items < 2 THEN <<svm, kv>>
    ELSE LET k == pop(svm)
             v == pop(k[1])
         IN popPairsOfItems(v[1], items - 2, kv \o <<k[2], v[2]>>)

\* the first loop of buildHash: count times pairs[pop()] = pop()
RECURSIVE popPairs(_, _, _)
popPairs(svm, count, kv) ==
    IF count = 0 THEN <<svm, kv>>
    ELSE LET k == pop(svm)
             v == pop(k[1])
         IN popPairs(v[1], count - 1, kv \o <<k[2], v[2]>>)

\* StackVM.buildHash: <<svm', hash, err>>
buildHash(svm, count) ==
    LET r == popPairs(svm, count, << >>)
        h == hashElems(r[2], 1, << >>)
    IN <<(IF h[3] # "" THEN Fault(r[1], h[3]) ELSE r[1]), h[1], h[2]>>

evalArrayIndexExpression(iterable, index) ==
    IF index.t # "INTEGER" THEN <<Nil, "index must be an integer">>
    ELSE IF index.v < 0 \/ index.v >= Len(iterable.v) THEN <<Nil, "index out of bounds">>
    ELSE <<iterable.v[index.v + 1], "">>

evalHashIndexExpression(iterable, index) ==
    IF ~IsHashable(index) THEN <<Nil, "key type is not hashable">>
    ELSE <<HashGet(iterable.v, HashKey(index), 1)[1], "">>

\* evalIndexExpression: <<obj, err>> (the caller has excluded a nil iterable)
evalIndexExpression(iterable, index) ==
    IF iterable.t = "ARRAY" THEN evalArrayIndexExpression(iterable, index)
    ELSE IF iterable.t = "HASH" THEN evalHashIndexExpression(iterable, index)
    ELSE <<Nil, "index expression not supported for type">>

(***************************************************************************)
(* object package: builtin functions.  An Error value is [t |-> "ERROR"].  *)
(***************************************************************************)
NewError(msg) == [t |-> "ERROR", v |-> msg]
IsErrorValue(obj) == obj.t = "ERROR"

builtinLen(args) ==
    IF Len(args) # 1 THEN NewError("len() requires 1 argument")
    ELSE IF args[1].t = "STRING" THEN Integer(Len(args[1].v))
    ELSE IF args[1].t = "ARRAY" THEN Integer(Len(args[1].v))
    ELSE NewError("len(): type not supported")

builtinFirst(args) ==
    IF Len(args) # 1 THEN NewError("first() requires 1 argument")
    ELSE IF args[1].t = "ARRAY"
         THEN IF Len(args[1].v) > 0 THEN args[1].v[1] ELSE NewError("empty array")
    ELSE NewError("first(): type not supported")

builtinLast(args) ==
    IF Len(args) # 1 THEN NewError("last() requires 1 argument")
    ELSE IF args[1].t = "ARRAY"
         THEN IF Len(args[1].v) > 0 THEN args[1].v[Len(args[1].v)] ELSE NewError("empty array")
    ELSE NewError("last(): type not supported")

builtinRest(args) ==
    IF Len(args) # 1 THEN NewError("rest() requires 1 argument")
    ELSE IF args[1].t = "ARRAY"
         THEN IF Len(args[1].v) > 0 THEN Array(Tail(args[1].v)) ELSE NewError("empty array")
    ELSE NewError("rest(): type not supported")

builtinPush(args) ==
    IF Len(args) # 2 THEN NewError("push() requires 2 arguments")
    ELSE IF args[1].t = "ARRAY" THEN Array(Append(args[1].v, args[2]))
    ELSE NewError("push(): type not supported")

builtinPuts(args) == NULL

\* object.BuiltinFunctions: the host function registered under a name
BuiltinFunctions(name, args) ==
    CASE name = "len" -> builtinLen(args)
      [] name = "first" -> builtinFirst(args)
      [] name = "last" -> builtinLast(args)
      [] name = "rest" -> builtinRest(args)
      [] name = "push" -> builtinPush(args)
      [] name = "puts" -> builtinPuts(args)

\* a VM table in which first and last have changed places
builtInFunctionsSwapped(idx, args) ==
    BuiltinFunctions(<<"len", "last", "first", "rest", "push", "puts">>[idx + 1], args)

\* the VM's table builtInFunctions: entry idx applied to args
builtInFunctions(idx, args) ==
    BuiltinFunctions(<<"len", "first", "last", "rest", "push", "puts">>[idx + 1], args)

(***************************************************************************)
(* Macros: ast.Walker, evaluator.ExpandMacro and the part of               *)
(* evaluator.Eval that a macro body runs.                                  *)
(***************************************************************************)
\* kids = <<parameters, Body>>
MacroLiteral(params, body) ==
    Node("MacroLiteral", "", 0, <<Node("Parameters", "", 0, [i \in 1..Len(params) |-> Identifier(params[i])]), body>>)
\* a nil ast.Node
NilNode == Node("nil", "", 0, << >>)

Quote(node) == [t |-> "QUOTE", Node |-> node]
\* Macro.Env is always the environment ExpandMacro was given: see Root
Macro(params, body) == [t |-> "MACRO", Parameters |-> params, Body |-> body]
ReturnValueObject(obj) == [t |-> "RETURN_VALUE", Value |-> obj]
\* not an object: a Go panic unwinding through Eval
Panic == [t |-> "PANIC"]
\* the result of a case of Eval that is not translated
NotModelled == [t |-> "NOT_MODELLED"]

\* outer is << >> (nil) or <<environment>>
NewEnvironment(outer) == [store |-> [n \in {} |-> Nil], outer |-> outer]

RECURSIVE Get(_, _)
Get(env, name) ==
    IF name \in DOMAIN env.store THEN env.store[name]
    ELSE IF env.outer # << >> THEN Get(env.outer[1], name)
    ELSE IF name \in DOMAIN builtInSymbols THEN BuiltinFunction(builtInSymbols[name].Index)
    ELSE NewError("Undefined variable")

Set(env, name, value) == [env EXCEPT !.store = (name :> value) @@ @]

\* the environment at the end of the outer chain: the one every Macro closes over
RECURSIVE Root(_)
Root(env) == IF env.outer = << >> THEN env ELSE Root(env.outer[1])

\* results of Walker and of a Modifier: (node, err), the environment after the
\* call, and whether a type assertion on a nil interface panicked
Walked(node, env) == [node |-> node, env |-> env, err |-> "", fault |-> FALSE]
WalkErr(env, e) == [node |-> NilNode, env |-> env, err |-> e, fault |-> FALSE]
WalkFault(env) == [node |-> NilNode, env |-> env, err |-> "", fault |-> TRUE]
Failed(w) == w.err # "" \/ w.fault

objToNode(obj) ==
    CASE obj.t = "INTEGER" -> IntegerLiteral(obj.v)
      [] obj.t = "QUOTE" -> obj.Node
      [] OTHER -> NilNode

isTruthy(obj) == ~(obj.t = "NULL" \/ (obj.t = "BOOLEAN" /\ obj = FALSE_))

\* Only "+" on integers is translated.
evalInfixExpression(operator, left, right) ==
    IF left.t = "nil" \/ right.t = "nil" THEN Panic
    ELSE IF left.t # right.t THEN NewError("Incompatible types")
    ELSE IF operator = "+" /\ left.t = "INTEGER" THEN Integer(left.v + right.v)
    ELSE NotModelled

TokenLiteral(node) == IF node.kind = "Identifier" THEN node.name ELSE node.kind

IsPanic(obj) == obj.t = "PANIC"
Stops(obj) == IsPanic(obj) \/ IsErrorValue(obj)

RECURSIVE Eval(_, _), EvalStatements(_, _, _, _)
RECURSIVE Walker(_, _, _), WalkEach(_, _, _, _)

\* the environment evalCallExpression extends for a macro call: macro.Env is
\* the root of the caller's environment
extendedEnv(macro, args, env) ==
    [NewEnvironment(<<Root(env)>>) EXCEPT !.store =
        [n \in {macro.Parameters[i].name : i \in 1..Len(args)} |->
            args[CHOOSE i \in 1..Len(args) :
                    /\ macro.Parameters[i].name = n
                    /\ \A j \in (i + 1)..Len(args) : macro.Parameters[j].name # n]]]

\* evalCallExpression, the Macro case; result is Eval(macro.Body, extendedEnv)
evalCallExpression(macro, args, result) ==
    IF Len(macro.Parameters) # Len(args)
    THEN NewError("expected parameters, got args")
    ELSE IF result.t = "RETURN_VALUE" THEN result.Value ELSE result

handleUnquotesModifier(node, env) ==
    IF node.kind # "CallExpression" THEN Walked(node, env)
    ELSE IF node.kids[1].kind # "Identifier" THEN Walked(node, env)
    ELSE IF node.kids[1].name # "unquote" THEN Walked(node, env)
    ELSE IF Len(node.kids) - 1 # 1 THEN WalkErr(env, "unquote() supports only 1 argument")
    ELSE LET r == Eval(node.kids[2], env)
         IN IF IsPanic(r[1]) THEN WalkFault(r[2])
            ELSE IF IsErrorValue(r[1]) THEN WalkErr(r[2], r[1].v)
            ELSE Walked(objToNode(r[1]), r[2])

handleUnquotes(quoted, env) == Walker(quoted, "handleUnquotes", env)

quote(node, env) ==
    LET w == handleUnquotes(node, env)
    IN <<IF w.fault THEN Panic
         ELSE IF w.err # "" THEN NewError(w.err)
         ELSE Quote(w.node), w.env>>

isMacroDefinition(node) ==
    node.kind = "LetStatement" /\ node.kids[1].kind = "MacroLiteral"

isMacroCallExpression(node, env) ==
    /\ node.kind = "CallExpression"
    /\ node.kids[1].kind = "Identifier"
    /\ Get(env, node.kids[1].name).t = "MACRO"

\* the modifier of ExpandMacro; err is the message after "macro expansion error: "
ExpandMacroModifier(node, env) ==
    IF isMacroDefinition(node)
    THEN LET macroLiteral == node.kids[1]
             macroObj == Macro(macroLiteral.kids[1].kids, macroLiteral.kids[2])
         IN Walked(NilNode, Set(env, node.name, macroObj))
    ELSE IF isMacroCallExpression(node, env)
    THEN LET obj == Eval(node, env)[1]
         IN IF IsPanic(obj) THEN WalkFault(env)
            ELSE IF IsErrorValue(obj) THEN WalkErr(env, obj.v)
            ELSE IF obj.t = "QUOTE" THEN Walked(obj.Node, env)
            ELSE Walked(node, env)
    ELSE Walked(node, env)

Modifier(modifier, node, env) ==
    IF modifier = "ExpandMacro" THEN ExpandMacroModifier(node, env)
    ELSE handleUnquotesModifier(node, env)

\* Walker over a list of children, in order.  nils: "drop" (statements: a nil
\* result is left out), "assert" (the result is asserted to be an Expression at
\* once), "keep" (the results are asserted after all of them are walked).
WalkEach(nodes, modifier, env, nils) ==
    IF nodes = << >> THEN Walked(<< >>, env)
    ELSE IF Len(nodes) = 1
    THEN LET w == Walker(nodes[1], modifier, env)
         IN IF Failed(w) THEN w
            ELSE IF w.node # NilNode THEN Walked(<<w.node>>, w.env)
            ELSE IF nils = "assert" THEN WalkFault(w.env)
            ELSE IF nils = "drop" THEN Walked(<< >>, w.env)
            ELSE Walked(<<NilNode>>, w.env)
    ELSE LET half == Len(nodes) \div 2
             first == WalkEach(SubSeq(nodes, 1, half), modifier, env, nils)
             rest == WalkEach(SubSeq(nodes, half + 1, Len(nodes)), modifier, first.env, nils)
         IN IF Failed(first) THEN first
            ELSE IF Failed(rest) THEN rest
            ELSE Walked(first.node \o rest.node, rest.env)

HasNil(nodes) == \E i \in 1..Len(nodes) : nodes[i] = NilNode

Walker(node, modifier, env) ==
    IF node = NilNode THEN Walked(NilNode, env)
    ELSE CASE node.kind \in {"Program", "BlockStatement"} ->
                LET w == WalkEach(node.kids, modifier, env, "drop")
                IN IF Failed(w) THEN w
                   ELSE Modifier(modifier, [node EXCEPT !.kids = w.node], w.env)
           [] node.kind \in {"LetStatement", "ExpressionStatement", "PrefixExpression",
                             "InfixExpression"} ->
                LET w == WalkEach(node.kids, modifier, env, "keep")
                IN IF Failed(w) THEN w
                   ELSE IF HasNil(w.node) THEN WalkFault(w.env)
                   ELSE Modifier(modifier, [node EXCEPT !.kids = w.node], w.env)
           [] node.kind = "CallExpression" ->
                LET mFunc == Walker(node.kids[1], modifier, env)
                    mArgs == WalkEach(Tail(node.kids), modifier, mFunc.env, "assert")
                IN IF Failed(mFunc) THEN mFunc
                   ELSE IF Failed(mArgs) THEN mArgs
                   ELSE IF mFunc.node = NilNode THEN WalkFault(mArgs.env)
                   ELSE Modifier(modifier, [node EXCEPT !.kids = <<mFunc.node>> \o mArgs.node],
                                 mArgs.env)
           [] node.kind = "FunctionLiteral" ->
                LET mParams == WalkEach(node.kids[1].kids, modifier, env, "assert")
                    mBody == Walker(node.kids[2], modifier, mParams.env)
                IN IF Failed(mParams) THEN mParams
                   ELSE IF Failed(mBody) THEN mBody
                   ELSE IF mBody.node = NilNode THEN WalkFault(mBody.env)
                   ELSE Modifier(modifier,
                                 Node("FunctionLiteral", "", 0,
                                      <<[node.kids[1] EXCEPT !.kids = mParams.node], mBody.node>>),
                                 mBody.env)
           [] node.kind = "IfElseConditional" ->
                LET w == WalkEach(SubSeq(node.kids, 1, 2), modifier, env, "keep")
                    mAlternative == WalkEach(SubSeq(node.kids, 3, Len(node.kids)), modifier,
                                             w.env, "assert")
                IN IF Failed(w) THEN w
                   ELSE IF Failed(mAlternative) THEN mAlternative
                   ELSE IF HasNil(w.node) THEN WalkFault(mAlternative.env)
                   ELSE Modifier(modifier, [node EXCEPT !.kids = w.node \o mAlternative.node],
                                 mAlternative.env)
           [] OTHER -> Modifier(modifier, node, env)

ExpandMacro(prg, env) == Walker(prg, "ExpandMacro", env)

EvalStatements(stmts, env, result, isProgram) ==
    IF stmts = << >> THEN <<result, env>>
    ELSE LET r == Eval(Head(stmts), env)
         IN IF IsPanic(r[1]) THEN r
            ELSE IF r[1].t = "RETURN_VALUE"
            THEN <<IF isProgram THEN r[1].Value ELSE r[1], r[2]>>
            ELSE IF IsErrorValue(r[1]) THEN r
            ELSE EvalStatements(Tail(stmts), r[2], r[1], isProgram)

\* Eval: <<object, env>>.  A nil result is Nil.  The call of anything but quote
\* or a macro is not translated.
Eval(node, env) ==
    CASE node.kind = "Program" -> EvalStatements(node.kids, env, Nil, TRUE)
      [] node.kind = "BlockStatement" -> EvalStatements(node.kids, env, Nil, FALSE)
      [] node.kind = "ReturnStatement" ->
            LET r == Eval(node.kids[1], env)
            IN IF Stops(r[1]) THEN r ELSE <<ReturnValueObject(r[1]), r[2]>>
      [] node.kind = "ExpressionStatement" -> Eval(node.kids[1], env)
      [] node.kind = "IntegerLiteral" -> <<Integer(node.val), env>>
      [] node.kind = "StringLiteral" -> <<String(node.name), env>>
      [] node.kind = "BooleanLiteral" -> <<getBooleanObject(node.val = 1), env>>
      [] node.kind \in {"ArrayLiteral", "HashLiteral", "FunctionLiteral", "IndexExpression",
                        "PrefixExpression"} -> <<NotModelled, env>>
      [] node.kind = "CallExpression" ->
            IF TokenLiteral(node.kids[1]) = "quote"
            THEN IF Len(node.kids) - 1 # 1
                 THEN <<NewError("quote supports only 1 argument"), env>>
                 ELSE quote(node.kids[2], env)
            ELSE LET fn == Eval(node.kids[1], env)
                 IN IF Stops(fn[1]) THEN fn
                    ELSE IF fn[1].t = "MACRO"
                    THEN LET args == [i \in 1..(Len(node.kids) - 1) |-> Quote(node.kids[i + 1])]
                         IN <<evalCallExpression(fn[1], args,
                                  Eval(fn[1].Body, extendedEnv(fn[1], args, fn[2]))[1]), fn[2]>>
                    ELSE <<NotModelled, fn[2]>>
      [] node.kind = "InfixExpression" ->
            LET leftObj == Eval(node.kids[1], env)
                rightObj == Eval(node.kids[2], leftObj[2])
            IN IF Stops(leftObj[1]) THEN leftObj
               ELSE IF Stops(rightObj[1]) THEN rightObj
               ELSE <<evalInfixExpression(node.name, leftObj[1], rightObj[1]), rightObj[2]>>
      [] node.kind = "IfElseConditional" ->
            LET conditionObj == Eval(node.kids[1], env)
            IN IF Stops(conditionObj[1]) THEN conditionObj
               ELSE IF isTruthy(conditionObj[1]) THEN Eval(node.kids[2], conditionObj[2])
               ELSE IF Len(node.kids) = 3 THEN Eval(node.kids[3], conditionObj[2])
               ELSE <<NULL, conditionObj[2]>>
      [] node.kind = "LetStatement" ->
            LET rightObj == Eval(node.kids[1], env)
            IN IF Stops(rightObj[1]) THEN rightObj
               ELSE <<Nil, Set(rightObj[2], node.name, rightObj[1])>>
      [] node.kind = "Identifier" -> <<Get(env, node.name), env>>
      [] OTHER -> <<NewError("Unknown statement type"), env>>

(***************************************************************************)
(* Inputs: sessions of source programs, given as the ASTs the parser       *)
(* builds.  A session of one program is a run of the test helper testVM;   *)
(* a longer one is a REPL session sharing the symbol table, the constant   *)
(* pool and the globals.                                                   *)
(***************************************************************************)
Id(name) == Identifier(name)
Num(v) == IntegerLiteral(v)
Es(e) == ExpressionStatement(e)
Let(name, e) == LetStatement(name, e)
Ret(e) == ReturnStatement(e)
Fn(params, stmts) == FunctionLiteral(params, BlockStatement(stmts))
Call(f, args) == CallExpression(f, args)
Infix(l, op, r) == InfixExpression(l, op, r)
If(c, cons) == IfElseConditional(c, BlockStatement(cons), << >>)
IfElse(c, cons, alt) == IfElseConditional(c, BlockStatement(cons), <<BlockStatement(alt)>>)

Str(v) == StringLiteral(v)
Bool(b) == BooleanLiteral(b)

\* the largest integer literal the generated programs use
MaxInt == 2
Ints == 0..MaxInt

\* let add = fn(x, y) { x + y }; add(a, b)
ProgAdd(a, b) ==
    Program(<< Let("add", Fn(<<"x", "y">>, <<Es(Infix(Id("x"), "+", Id("y")))>>)),
               Es(Call(Id("add"), <<Num(a), Num(b)>>)) >>)

\* let adder = fn(x) { fn(y) { x - y } }; let addA = adder(a); addA(b)
ProgAdder(a, b) ==
    Program(<< Let("adder", Fn(<<"x">>, <<Es(Fn(<<"y">>, <<Es(Infix(Id("x"), "-", Id("y")))>>))>>)),
               Let("addA", Call(Id("adder"), <<Num(a)>>)),
               Es(Call(Id("addA"), <<Num(b)>>)) >>)

\* let makePair = fn(x) { fn() { x } }; let p = makePair(a); let q = makePair(b); p()
ProgMakePair(a, b) ==
    Program(<< Let("makePair", Fn(<<"x">>, <<Es(Fn(<< >>, <<Es(Id("x"))>>))>>)),
               Let("p", Call(Id("makePair"), <<Num(a)>>)),
               Let("q", Call(Id("makePair"), <<Num(b)>>)),
               Es(Call(Id("p"), << >>)) >>)

\* let mk = fn(x) { let g = fn() { x }; let x = b; g() }; mk(a)
ProgSnapshot(a, b) ==
    Program(<< Let("mk", Fn(<<"x">>, << Let("g", Fn(<< >>, <<Es(Id("x"))>>)),
                                        Let("x", Num(b)),
                                        Es(Call(Id("g"), << >>)) >>)),
               Es(Call(Id("mk"), <<Num(a)>>)) >>)

\* let outer = fn(x, y) { let z = x * y; fn(u) { let w = u + z; fn(v) { [x, y, z, w, v] } } };
\* outer(a, 2)(b)(5)
ProgNested(a, b) ==
    Program(<< Let("outer", Fn(<<"x", "y">>,
                  << Let("z", Infix(Id("x"), "*", Id("y"))),
                     Es(Fn(<<"u">>,
                        << Let("w", Infix(Id("u"), "+", Id("z"))),
                           Es(Fn(<<"v">>, <<Es(ArrayLiteral(<<Id("x"), Id("y"), Id("z"), Id("w"), Id("v")>>))>>)) >>)) >>)),
               Es(Call(Call(Call(Id("outer"), <<Num(a), Num(2)>>), <<Num(b)>>), <<Num(5)>>)) >>)

\* let sum = fn(n) { if (n == 0) { return 0; } else { return n + sum(n - 1); } }; sum(a)
ProgSum(a) ==
    Program(<< Let("sum", Fn(<<"n">>,
                  <<Es(IfElse(Infix(Id("n"), "==", Num(0)),
                              <<Ret(Num(0))>>,
                              <<Ret(Infix(Id("n"), "+", Call(Id("sum"), <<Infix(Id("n"), "-", Num(1))>>)))>>))>>)),
               Es(Call(Id("sum"), <<Num(a)>>)) >>)

\* let wrapper = fn(k) { let countDown = fn(x) { if (x == 0) { return k; } else { countDown(x - 1); } };
\*                       countDown(a); }; wrapper(b)
ProgCountDown(a, b) ==
    Program(<< Let("wrapper", Fn(<<"k">>,
                  << Let("countDown", Fn(<<"x">>,
                        <<Es(IfElse(Infix(Id("x"), "==", Num(0)),
                                    <<Ret(Id("k"))>>,
                                    <<Es(Call(Id("countDown"), <<Infix(Id("x"), "-", Num(1))>>))>>))>>)),
                     Es(Call(Id("countDown"), <<Num(a)>>)) >>)),
               Es(Call(Id("wrapper"), <<Num(b)>>)) >>)

\* let outer = fn(x) { fn() { let x = x + 1; x } }; outer(a)()
ProgLetCaptured(a) ==
    Program(<< Let("outer", Fn(<<"x">>,
                  <<Es(Fn(<< >>, << Let("x", Infix(Id("x"), "+", Num(1))), Es(Id("x")) >>))>>)),
               Es(Call(Call(Id("outer"), <<Num(a)>>), << >>)) >>)

\* let f = fn(x) { let x = x + 1; x }; f(a)
ProgLetParam(a) ==
    Program(<< Let("f", Fn(<<"x">>, << Let("x", Infix(Id("x"), "+", Num(1))), Es(Id("x")) >>)),
               Es(Call(Id("f"), <<Num(a)>>)) >>)

\* if (a > b) { 10 }
ProgIf(a, b) ==
    Program(<< Es(If(Infix(Num(a), ">", Num(b)), <<Es(Num(10))>>)) >>)

\* if (a < b) { "lt" } else { if (!(a == b)) { -a } }; 4
ProgIfElse(a, b) ==
    Program(<< Es(IfElse(Infix(Num(a), "<", Num(b)), <<Es(Str("lt"))>>,
                         <<Es(If(PrefixExpression("!", Infix(Num(a), "==", Num(b))),
                                 <<Es(PrefixExpression("-", Num(a)))>>))>>)),
               Es(Num(4)) >>)

\* return a;
ProgTopReturn(a) == Program(<< Ret(Num(a)) >>)

\* let arr = [a, b]; let h = {"k": arr, 1: false}; push(rest(arr), len(arr))[1] / h["k"][0]
ProgData(a, b) ==
    Program(<< Let("arr", ArrayLiteral(<<Num(a), Num(b)>>)),
               Let("h", HashLiteral(<<Str("k"), Id("arr"), Num(1), Bool(FALSE)>>)),
               Es(Infix(IndexExpression(Call(Id("push"), <<Call(Id("rest"), <<Id("arr")>>), Call(Id("len"), <<Id("arr")>>)>>), Num(1)),
                        "/",
                        IndexExpression(IndexExpression(Id("h"), Str("k")), Num(0)))) >>)

\* a + true
ProgTypeError(a) == Program(<< Es(Infix(Num(a), "+", Bool(TRUE))) >>)

\* x
ProgUnknown == Program(<< Es(Id("x")) >>)

\* let f = fn() { f() }; f()
ProgRecurse == Program(<< Let("f", Fn(<< >>, <<Es(Call(Id("f"), << >>))>>)), Es(Call(Id("f"), << >>)) >>)

\* the parameter names p1 .. pn
ParamNames == <<"p01", "p02", "p03", "p04", "p05", "p06", "p07", "p08", "p09", "p10",
                "p11", "p12", "p13", "p14", "p15", "p16", "p17", "p18", "p19", "p20",
                "p21", "p22", "p23", "p24", "p25", "p26", "p27", "p28", "p29">>

\* let g = fn(p01, ..., p29) { 1; g() }; g()
\* Each call takes 32 slots (the callee, 29 parameters, g itself, the 1), so
\* the 64th call leaves sp at StackSize - 1 and the 1 fills the stack.
ProgDeep ==
    Program(<< Let("g", Fn(ParamNames, <<Es(Num(1)), Es(Call(Id("g"), << >>))>>)),
               Es(Call(Id("g"), << >>)) >>)

\* the key/value expressions 1: 1, ..., n: n of a hash literal
RECURSIVE HashPairs(_)
HashPairs(n) == IF n = 0 THEN << >> ELSE HashPairs(n - 1) \o <<Num(n), Num(n)>>

\* let h = {1: 1, ..., a: a}; h[1]
ProgHash(a) ==
    Program(<< Let("h", HashLiteral(HashPairs(a))), Es(IndexExpression(Id("h"), Num(1))) >>)

\* if (a > b) { 1; 2 } else { let t = 3; }
ProgIfArms(a, b) ==
    Program(<< Es(IfElse(Infix(Num(a), ">", Num(b)), <<Es(Num(1)), Es(Num(2))>>, <<Let("t", Num(3))>>)) >>)

\* puts() == puts()
ProgNullEq == Program(<< Es(Infix(Call(Id("puts"), << >>), "==", Call(Id("puts"), << >>))) >>)

\* puts() != puts()
ProgNullNotEq == Program(<< Es(Infix(Call(Id("puts"), << >>), "!=", Call(Id("puts"), << >>))) >>)

\* a < b
ProgLess(a, b) == Program(<< Es(Infix(Num(a), "<", Num(b))) >>)

\* a > b
ProgGreater(a, b) == Program(<< Es(Infix(Num(a), ">", Num(b))) >>)

\* {[1]: 2}
ProgUnhashable == Program(<< Es(HashLiteral(<<ArrayLiteral(<<Num(1)>>), Num(2)>>)) >>)

\* [7][a]
ProgOutOfBounds(a) == Program(<< Es(IndexExpression(ArrayLiteral(<<Num(7)>>), Num(a))) >>)

\* a(2)
ProgNotCallable(a) == Program(<< Es(Call(Num(a), <<Num(2)>>)) >>)

\* len(a)
ProgBuiltinError(a) == Program(<< Es(Call(Id("len"), <<Num(a)>>)) >>)

\* let arr = [a, b]; [len(arr), first(arr), last(arr), rest(arr), push(arr, 1), puts()]
ProgBuiltins(a, b) ==
    Program(<< Let("arr", ArrayLiteral(<<Num(a), Num(b)>>)),
               Es(ArrayLiteral(<< Call(Id("len"), <<Id("arr")>>), Call(Id("first"), <<Id("arr")>>),
                                  Call(Id("last"), <<Id("arr")>>), Call(Id("rest"), <<Id("arr")>>),
                                  Call(Id("push"), <<Id("arr"), Num(1)>>), Call(Id("puts"), << >>) >>)) >>)

\* let len = fn(x) { a }; let f = fn(first) { fn() { first + len([]) } }; f(b)() + len([])
ProgShadow(a, b) ==
    Program(<< Let("len", Fn(<<"x">>, <<Es(Num(a))>>)),
               Let("f", Fn(<<"first">>, <<Es(Fn(<< >>, <<Es(Infix(Id("first"), "+", Call(Id("len"), <<ArrayLiteral(<< >>)>>)))>>))>>)),
               Es(Infix(Call(Call(Id("f"), <<Num(b)>>), << >>), "+", Call(Id("len"), <<ArrayLiteral(<< >>)>>))) >>)

\* let one = 1; let o = fn(x) { fn(y) { fn(z) { x + y + z + len("k") } } }; o(a)(b)(one)
ProgThree(a, b) ==
    Program(<< Let("one", Num(1)),
               Let("o", Fn(<<"x">>, <<Es(Fn(<<"y">>, <<Es(Fn(<<"z">>,
                   <<Es(Infix(Infix(Infix(Id("x"), "+", Id("y")), "+", Id("z")), "+", Call(Id("len"), <<Str("k")>>)))>>))>>))>>)),
               Es(Call(Call(Call(Id("o"), <<Num(a)>>), <<Num(b)>>), <<Id("one")>>)) >>)

\* let e = fn(x) { }; e(a)
ProgEmptyFn(a) == Program(<< Let("e", Fn(<<"x">>, << >>)), Es(Call(Id("e"), <<Num(a)>>)) >>)

\* let r = fn(x) { return x; }; r(a)
ProgReturn(a) == Program(<< Let("r", Fn(<<"x">>, <<Ret(Id("x"))>>)), Es(Call(Id("r"), <<Num(a)>>)) >>)

\* if (a) { b } else { "else" }
ProgTruthy(a, b) == Program(<< Es(IfElse(Num(a), <<Es(Num(b))>>, <<Es(Str("else"))>>)) >>)

\* if (puts()) { a } else { "else" }
ProgFalsy(a) == Program(<< Es(IfElse(Call(Id("puts"), << >>), <<Es(Num(a))>>, <<Es(Str("else"))>>)) >>)

Mac(params, stmts) == MacroLiteral(params, BlockStatement(stmts))
QuoteOf(e) == Call(Id("quote"), <<e>>)
Unquote(e) == Call(Id("unquote"), <<e>>)

\* let add = macro(x, y) { quote(unquote(x) + unquote(y)) }; add(a, b)
ProgMacroAdd(a, b) ==
    Program(<< Let("add", Mac(<<"x", "y">>, <<Es(QuoteOf(Infix(Unquote(Id("x")), "+", Unquote(Id("y")))))>>)),
               Es(Call(Id("add"), <<Num(a), Num(b)>>)) >>)

\* let first = macro(x, y) { quote(unquote(x)) }; first(a, nowhere)
ProgMacroFirst(a) ==
    Program(<< Let("first", Mac(<<"x", "y">>, <<Es(QuoteOf(Unquote(Id("x"))))>>)),
               Es(Call(Id("first"), <<Num(a), Id("nowhere")>>)) >>)

\* let m = macro() { quote(a) }; [m()]
ProgMacroInArray(a) ==
    Program(<< Let("m", Mac(<< >>, <<Es(QuoteOf(Num(a)))>>)),
               Es(ArrayLiteral(<<Call(Id("m"), << >>)>>)) >>)

\* let m = macro() { quote(a) }; let f = fn() { return m(); }; f()
ProgMacroInReturn(a) ==
    Program(<< Let("m", Mac(<< >>, <<Es(QuoteOf(Num(a)))>>)),
               Let("f", Fn(<< >>, <<Ret(Call(Id("m"), << >>))>>)),
               Es(Call(Id("f"), << >>)) >>)

\* let f = fn() { let m = macro() { quote(a) }; m() }; f()
ProgMacroInFn(a) ==
    Program(<< Let("f", Fn(<< >>, << Let("m", Mac(<< >>, <<Es(QuoteOf(Num(a)))>>)),
                                    Es(Call(Id("m"), << >>)) >>)),
               Es(Call(Id("f"), << >>)) >>)

\* if (true) { let m = macro() { quote(a) }; m() }
ProgMacroInIf(a) ==
    Program(<< Es(If(Bool(TRUE), << Let("m", Mac(<< >>, <<Es(QuoteOf(Num(a)))>>)),
                                   Es(Call(Id("m"), << >>)) >>)) >>)

\* [fn() { let m = macro() { quote(a) }; a }]
ProgMacroDefInArray(a) ==
    Program(<< Es(ArrayLiteral(<<Fn(<< >>, << Let("m", Mac(<< >>, <<Es(QuoteOf(Num(a)))>>)),
                                             Es(Num(a)) >>)>>)) >>)

\* let m = macro(x) { quote([unquote(x)]) }; m(a)
ProgUnquoteInArray(a) ==
    Program(<< Let("m", Mac(<<"x">>, <<Es(QuoteOf(ArrayLiteral(<<Unquote(Id("x"))>>)))>>)),
               Es(Call(Id("m"), <<Num(a)>>)) >>)

\* let m = macro(x) { quote(unquote(1 + 1) + unquote(x)) }; m(a)
ProgUnquoteInteger(a) ==
    Program(<< Let("m", Mac(<<"x">>, <<Es(QuoteOf(Infix(Unquote(Infix(Num(1), "+", Num(1))), "+",
                                                        Unquote(Id("x")))))>>)),
               Es(Call(Id("m"), <<Num(a)>>)) >>)

\* let m = macro() { quote(unquote(true)) }; m()
ProgUnquoteBoolean ==
    Program(<< Let("m", Mac(<< >>, <<Es(QuoteOf(Unquote(Bool(TRUE))))>>)),
               Es(Call(Id("m"), << >>)) >>)

\* let m = macro(x) { quote(unquote("s") + unquote(x)) }; m(a)
ProgUnquoteString(a) ==
    Program(<< Let("m", Mac(<<"x">>, <<Es(QuoteOf(Infix(Unquote(Str("s")), "+", Unquote(Id("x")))))>>)),
               Es(Call(Id("m"), <<Num(a)>>)) >>)

\* let m = macro(x) { quote(unquote(x)) }; m()
ProgMacroArity ==
    Program(<< Let("m", Mac(<<"x">>, <<Es(QuoteOf(Unquote(Id("x"))))>>)),
               Es(Call(Id("m"), << >>)) >>)

\* let twice = macro(x) { quote(unquote(x) + unquote(x)) };
ProgDefineTwice ==
    Program(<< Let("twice", Mac(<<"x">>, <<Es(QuoteOf(Infix(Unquote(Id("x")), "+", Unquote(Id("x")))))>>)) >>)

\* twice(a)
ProgUseTwice(a) == Program(<< Es(Call(Id("twice"), <<Num(a)>>)) >>)

\* let f = fn(x) { if (x > 1) { x } else { return 0; } }; f(a)
ProgIfReturn(a) ==
    Program(<< Let("f", Fn(<<"x">>, <<Es(IfElse(Infix(Id("x"), ">", Num(1)), <<Es(Id("x"))>>, <<Ret(Num(0))>>))>>)),
               Es(Call(Id("f"), <<Num(a)>>)) >>)

\* let f = fn(x) { fn() { f } }; f(a)()
ProgSelfName(a) ==
    Program(<< Let("f", Fn(<<"x">>, <<Es(Fn(<< >>, <<Es(Id("f"))>>))>>)),
               Es(Call(Call(Id("f"), <<Num(a)>>), << >>)) >>)

\* a + if (true) { b }
ProgIfOperand(a, b) ==
    Program(<< Es(Infix(Num(a), "+", If(Bool(TRUE), <<Es(Num(b))>>))) >>)

\* let outer = fn(x) { fn(p) { let x = x + 1; p } }; outer(a)(b)
ProgLetBesideParam(a, b) ==
    Program(<< Let("outer", Fn(<<"x">>,
                  <<Es(Fn(<<"p">>, << Let("x", Infix(Id("x"), "+", Num(1))), Es(Id("p")) >>))>>)),
               Es(Call(Call(Id("outer"), <<Num(a)>>), <<Num(b)>>)) >>)

\* let f = fn(p) { let y = a; p }; f(b)
ProgLetBesideLocal(a, b) ==
    Program(<< Let("f", Fn(<<"p">>, << Let("y", Num(a)), Es(Id("p")) >>)),
               Es(Call(Id("f"), <<Num(b)>>)) >>)

\* let g = fn(p01, ..., p29) { g(p01) }; g(1): every call reads its first parameter
ProgDeepLocal ==
    Program(<< Let("g", Fn(ParamNames, <<Es(Call(Id("g"), <<Id(ParamNames[1])>>))>>)),
               Es(Call(Id("g"), <<Num(1)>>)) >>)

\* let g = fn(p01, ..., p29) { g() }; g(): every call takes 31 slots, so the
\* 67th call starts with sp = StackSize - 1
ProgDeepCall ==
    Program(<< Let("g", Fn(ParamNames, <<Es(Call(Id("g"), << >>))>>)),
               Es(Call(Id("g"), << >>)) >>)

\* (a + true) < a(2): both operands fail, each with its own error
ProgLessBothFail(a) ==
    Program(<< Es(Infix(Infix(Num(a), "+", Bool(TRUE)), "<", Call(Num(a), <<Num(2)>>))) >>)

\* (a + true) > a(2)
ProgGreaterBothFail(a) ==
    Program(<< Es(Infix(Infix(Num(a), "+", Bool(TRUE)), ">", Call(Num(a), <<Num(2)>>))) >>)

\* let f = fn() { x }, with x undefined
ProgLetFnUnknown == Program(<< Let("f", Fn(<< >>, <<Es(Id("x"))>>)) >>)

\* f
ProgUseF == Program(<< Es(Id("f")) >>)

\* the sequence of f(a, b) for a, b in Ints
Gen2(f(_, _)) ==
    [i \in 1..((MaxInt + 1) * (MaxInt + 1)) |-> <<f((i - 1) \div (MaxInt + 1), (i - 1) % (MaxInt + 1))>>]
\* the sequence of f(a) for a in Ints
Gen1(f(_)) == [i \in 1..(MaxInt + 1) |-> <<f(i - 1)>>]

Sessions ==
    Gen2(ProgAdd) \o Gen2(ProgAdder) \o Gen2(ProgMakePair) \o Gen2(ProgSnapshot)
    \o Gen2(ProgNested) \o Gen1(ProgSum) \o Gen2(ProgCountDown)
    \o Gen1(ProgLetCaptured) \o Gen1(ProgLetParam)
    \o Gen2(ProgIf) \o Gen2(ProgIfElse) \o Gen1(ProgTopReturn)
    \o Gen2(ProgData) \o Gen1(ProgTypeError)
    \o Gen1(ProgHash) \o Gen2(ProgIfArms) \o Gen2(ProgLess) \o Gen2(ProgGreater)
    \o Gen1(ProgOutOfBounds) \o Gen1(ProgNotCallable) \o Gen1(ProgBuiltinError)
    \o Gen2(ProgBuiltins) \o Gen2(ProgShadow) \o Gen2(ProgThree)
    \o Gen1(ProgEmptyFn) \o Gen1(ProgReturn) \o Gen2(ProgTruthy) \o Gen1(ProgFalsy)
    \o Gen2(ProgMacroAdd) \o Gen1(ProgMacroFirst) \o Gen1(ProgMacroInArray)
    \o Gen1(ProgMacroInReturn) \o Gen1(ProgMacroInFn) \o Gen1(ProgMacroInIf)
    \o Gen1(ProgMacroDefInArray) \o Gen1(ProgUnquoteInArray) \o Gen1(ProgUnquoteInteger)
    \o Gen1(ProgUnquoteString) \o Gen1(ProgIfReturn) \o Gen1(ProgSelfName)
    \o Gen2(ProgIfOperand)
    \o Gen2(ProgLetBesideParam) \o Gen2(ProgLetBesideLocal)
    \o << <<ProgDeepLocal>>, <<ProgDeepCall>> >>
    \o Gen1(ProgLessBothFail) \o Gen1(ProgGreaterBothFail)
    \o << <<ProgLetFnUnknown, ProgUseF>> >>
    \o << <<ProgUnquoteBoolean>>, <<ProgMacroArity, ProgAdd(1, 2)>>,
          <<ProgDefineTwice, ProgUseTwice(1), ProgUseTwice(2)>> >>
    \o << <<ProgNullEq>>, <<ProgNullNotEq>>, <<ProgUnhashable>> >>
    \o << <<ProgUnknown, ProgAdd(1, 2)>>, <<ProgTypeError(1), ProgAdd(1, 2)>>, <<ProgRecurse>>, <<ProgDeep>> >>

(***************************************************************************)
(* The state machine                                                       *)
(***************************************************************************)
VARIABLES
    session,    \* which session of Sessions is run
    line,       \* number of inputs of the session taken so far
    status,     \* "idle" | "running" | "done" | "error" | "compile_error" |
                \* "expand_error" | "panic"
    err,        \* the error ExpandMacro, Compile or Run returned
    macroEnv,   \* the environment holding the macros the inputs defined
    expandedAST, \* the current input after ExpandMacro
    compiler,   \* the Compiler of the current input, after Compile
    symTable,   \* the heap holding the symbol table shared by the inputs
    constantPool, \* the constant pool shared by the inputs
    svm,        \* the StackVM of the current input
    opcode      \* the opcode Run fetched last

vars == <<session, line, status, err, macroEnv, expandedAST, compiler, symTable, constantPool, svm,
         opcode>>

Init ==
    /\ session \in 1..Len(Sessions)
    /\ line = 0
    /\ status = "idle"
    /\ err = ""
    /\ macroEnv = NewEnvironment(<< >>)
    /\ expandedAST = NilNode
    /\ symTable = <<NewSymbolTable(0)>>
    /\ constantPool = << >>
    /\ compiler = New(symTable, 1, constantPool)
    /\ svm = NewStackVM(<< >>, << >>, << >>, << >>)
    /\ opcode = -1

\* the rest of an input whose AST compiled to c: on success Output and
\* NewStackVM(..., WithGlobals(globals))
StartCompiled(c) ==
    /\ compiler' = c
    /\ symTable' = <<c.tables[1]>>
    /\ IF c.err # ""
       THEN /\ status' = "compile_error"
            /\ err' = c.err
            /\ UNCHANGED <<constantPool, svm>>
       ELSE /\ status' = "running"
            /\ err' = ""
            /\ constantPool' = Output(c).ConstantPool
            /\ svm' = NewStackVM(Output(c).Instructions, Output(c).ConstantPool,
                                 svm.globals, svm.closures)

\* the rest of an input for which ExpandMacro gave w: compiler.New(
\* WithSymbolTable, WithConstantPool) and Compile of the expanded AST
StartExpanded(w) ==
    /\ macroEnv' = w.env
    /\ IF w.fault
       THEN /\ status' = "panic"
            /\ err' = "interface conversion: interface is nil"
            /\ UNCHANGED <<expandedAST, compiler, symTable, constantPool, svm>>
       ELSE IF w.err # ""
       THEN /\ status' = "expand_error"
            /\ err' = w.err
            /\ UNCHANGED <<expandedAST, compiler, symTable, constantPool, svm>>
       ELSE /\ expandedAST' = w.node
            /\ \E order \in RangeOrders :
                  StartCompiled([Compile([New(symTable, 1, constantPool) EXCEPT !.rangeOrder = order],
                                         w.node) EXCEPT !.rangeOrder = 0])

\* One input of the REPL: ExpandMacro, Compile and NewStackVM.
Start ==
    /\ status \in {"idle", "done", "error", "compile_error", "expand_error"}
    /\ line < Len(Sessions[session])
    /\ StartExpanded(ExpandMacro(Sessions[session][line + 1], macroEnv))
    /\ line' = line + 1
    /\ opcode' = -1
    /\ UNCHANGED session

activeFrame == svm.frames[svm.activeFrameIdx + 1]
activeIns == instructions(svm, activeFrame)
FrameOk == svm.activeFrameIdx >= 0 /\ svm.activeFrameIdx < FramesSize

\* the loop condition of Run holds and the fetched opcode is op
Fetch(op) ==
    /\ status = "running"
    /\ FrameOk
    /\ activeFrame.ip < Len(activeIns)
    /\ ByteAt(activeIns, activeFrame.ip) = op
    /\ opcode' = op

\* a variant of AdvanceIp that steps over the opcode byte only
AdvanceIpByOne(s, n) == [s EXCEPT !.frames[svm.activeFrameIdx + 1].ip = @ + 1]

\* activeFrame.ip += n, where activeFrame is the frame fetched from
AdvanceIp(s, n) == [s EXCEPT !.frames[svm.activeFrameIdx + 1].ip = @ + n]
SetIp(s, target) == [s EXCEPT !.frames[svm.activeFrameIdx + 1].ip = target]

\* an end of iteration that moves past the instruction even when it failed
FinishPastError(s, e) ==
    /\ svm' = (IF s.fault = "" /\ e # "" THEN AdvanceIp(s, 1) ELSE s)
    /\ IF s.fault # "" THEN status' = "panic" /\ err' = s.fault
       ELSE IF e # "" THEN status' = "error" /\ err' = e
       ELSE UNCHANGED <<status, err>>
    /\ UNCHANGED <<session, line, macroEnv, expandedAST, compiler, symTable, constantPool>>

\* the end of one iteration: a panic, a returned error, or the next iteration
Finish(s, e) ==
    /\ svm' = s
    /\ IF s.fault # "" THEN status' = "panic" /\ err' = s.fault
       ELSE IF e # "" THEN status' = "error" /\ err' = e
       ELSE UNCHANGED <<status, err>>
    /\ UNCHANGED <<session, line, macroEnv, expandedAST, compiler, symTable, constantPool>>

\* uint16 operand and one-byte operands of the fetched instruction
Operand16 == ReadUint16(activeIns, activeFrame.ip + 1)
Operand8 == ByteAt(activeIns, activeFrame.ip + 1)

\* the loop condition is false: Run returns nil
RunReturn ==
    /\ status = "running"
    /\ FrameOk
    /\ activeFrame.ip >= Len(activeIns)
    /\ status' = "done"
    /\ UNCHANGED <<session, line, err, macroEnv, expandedAST, compiler, symTable, constantPool, svm,
                 opcode>>

\* the loop condition indexes frames out of range
RunFrameFault ==
    /\ status = "running"
    /\ ~FrameOk
    /\ status' = "panic"
    /\ err' = "frames index out of range"
    /\ svm' = Fault(svm, "frames index out of range")
    /\ UNCHANGED <<session, line, macroEnv, expandedAST, compiler, symTable, constantPool, opcode>>

StepPush ==
    /\ Fetch(OpPush)
    /\ Finish(AdvanceIp(push(svm, svm.constantPool[Operand16 + 1])[1], 3), "")

StepPushTrue ==
    /\ Fetch(OpPushTrue)
    /\ Finish(AdvanceIp(push(svm, TRUE_)[1], 1), "")

StepPushFalse ==
    /\ Fetch(OpPushFalse)
    /\ Finish(AdvanceIp(push(svm, FALSE_)[1], 1), "")

StepPushNull ==
    /\ Fetch(OpPushNull)
    /\ Finish(AdvanceIp(push(svm, NULL)[1], 1), "")

StepBinary ==
    /\ \E op \in {OpAdd, OpSub, OpMul, OpDiv, OpEqual, OpNotEqual, OpGT} : Fetch(op)
    /\ LET r == executeBinaryOperation(svm, opcode')
       IN IF r[2] # "" THEN Finish(r[1], r[2]) ELSE Finish(AdvanceIp(r[1], 1), "")

StepUnary ==
    /\ \E op \in {OpNegateBoolean, OpNegateNumber} : Fetch(op)
    /\ LET r == executeUnaryOperation(svm, opcode')
       IN IF r[2] # "" THEN Finish(r[1], r[2]) ELSE Finish(AdvanceIp(r[1], 1), "")

StepJumpIfFalse ==
    /\ Fetch(OpJumpIfFalse)
    /\ LET t == Top(svm)
       IN IF ~IsTruthy(t[2]) THEN Finish(SetIp(t[1], Operand16), "")
          ELSE Finish(AdvanceIp(t[1], 3), "")

StepJump ==
    /\ Fetch(OpJump)
    /\ Finish(SetIp(svm, Operand16), "")

StepSetLocal ==
    /\ Fetch(OpSetLocal)
    /\ LET localBindingsStackIdx == activeFrame.bp + 1 + Operand16
           r == pop(svm)
       IN Finish(AdvanceIp(StackWrite(r[1], localBindingsStackIdx, r[2]), 3), "")

StepSetGlobal ==
    /\ Fetch(OpSetGlobal)
    /\ LET r == pop(svm)
       IN Finish(AdvanceIp([r[1] EXCEPT !.globals = ArraySet(@, Operand16, r[2])], 3), "")

StepGetLocal ==
    /\ Fetch(OpGetLocal)
    /\ LET localBindingsStackIdx == activeFrame.bp + 1 + Operand16
           r == StackRead(svm, localBindingsStackIdx)
       IN Finish(AdvanceIp(push(r[1], r[2])[1], 3), "")

StepGetGlobal ==
    /\ Fetch(OpGetGlobal)
    /\ Finish(AdvanceIp(push(svm, ArrayGet(svm.globals, Operand16))[1], 3), "")

StepGetBuiltIn ==
    /\ Fetch(OpGetBuiltIn)
    /\ IF Operand8 >= Len(builtInNames)
       THEN Finish(Fault(svm, "builtInFunctions index out of range"), "")
       ELSE Finish(AdvanceIp(push(svm, BuiltinFunction(Operand8))[1], 2), "")

StepGetFree ==
    /\ Fetch(OpGetFree)
    /\ IF Operand8 >= Len(FreeStoreOf(svm, activeFrame.closure))
       THEN Finish(Fault(svm, "FreeStore index out of range"), "")
       ELSE Finish(AdvanceIp(push(svm, FreeStoreOf(svm, activeFrame.closure)[Operand8 + 1])[1], 2), "")

StepArray ==
    /\ Fetch(OpArray)
    /\ LET r == buildArray(svm, Operand16)
       IN Finish(AdvanceIp(push(r[1], r[2])[1], 3), "")

StepHash ==
    /\ Fetch(OpHash)
    /\ LET r == buildHash(svm, Operand16)
       IN IF r[3] # "" \/ r[1].fault # "" THEN Finish(r[1], r[3])
          ELSE Finish(AdvanceIp(push(r[1], r[2])[1], 3), "")

StepIndex ==
    /\ Fetch(OpIndex)
    /\ LET i == pop(svm)
           it == pop(i[1])
           r == evalIndexExpression(it[2], i[2])
       IN IF it[2] = Nil THEN Finish(Fault(it[1], "nil dereference"), "")
          ELSE IF r[2] # "" THEN Finish(it[1], r[2])
          ELSE Finish(AdvanceIp(push(it[1], r[1])[1], 1), "")

\* a variant of MakeClosure that fills freeStore[i] = pop()
RECURSIVE popNReversed(_, _, _)
popNReversed(s, count, objs) ==
    IF count = 0 THEN <<s, objs>>
    ELSE LET r == pop(s) IN popNReversed(r[1], count - 1, Append(objs, r[2]))
MakeClosureReversed(s, idx, freeCount) ==
    LET r == popNReversed(s, freeCount, << >>)
    IN <<[r[1] EXCEPT !.closures = Append(@, Closure(idx, r[2]))],
         ClosureRef(Len(s.closures) + 1)>>

\* a variant of MakeClosure that reads the free values and leaves them on the stack
MakeClosurePeek(s, idx, freeCount) ==
    LET r == popN(s, freeCount, << >>)
    IN <<[s EXCEPT !.closures = Append(@, Closure(idx, r[2]))],
         ClosureRef(Len(s.closures) + 1)>>

\* OpClosure: pops the free values and allocates the Closure, <<svm', closure>>
MakeClosure(s, idx, freeCount) ==
    LET r == popN(s, freeCount, << >>)
    IN <<[r[1] EXCEPT !.closures = Append(@, Closure(idx, r[2]))],
         ClosureRef(Len(s.closures) + 1)>>

StepClosure ==
    /\ Fetch(OpClosure)
    /\ LET idx == Operand16
           freeCount == ByteAt(activeIns, activeFrame.ip + 3)
           r == MakeClosure(svm, idx, freeCount)
       IN IF idx >= Len(svm.constantPool)
          THEN Finish(Fault(svm, "constantPool index out of range"), "")
          ELSE IF svm.constantPool[idx + 1].t # "COMPILED_FUNCTION"
          THEN Finish(Fault(svm, "type assertion failed"), "")
          ELSE Finish(AdvanceIp(push(r[1], r[2])[1], 4), "")

\* OpCall on a Closure
CallClosure(s, closure, argsCount) ==
    LET f == pushFrame(s, closure, s.sp - 1 - argsCount)
    IN IF f.fault # "" THEN f
       ELSE [f EXCEPT !.sp = @ + FnOf(s, closure).NumLocals]

\* a builtin call that passes the arguments in the order they are popped
CallBuiltinReversed(s, builtInFn, argsCount) ==
    LET a == popNReversed(s, argsCount, << >>)
        f == pop(a[1])
        obj == builtInFunctions(builtInFn.v, a[2])
    IN IF IsErrorValue(obj) THEN <<f[1], obj.v>>
       ELSE PushOk(f[1], obj)

\* OpCall on a BuiltinFunction: <<svm', err>>
CallBuiltin(s, builtInFn, argsCount) ==
    LET a == popN(s, argsCount, << >>)
        f == pop(a[1])
        obj == builtInFunctions(builtInFn.v, a[2])
    IN IF IsErrorValue(obj) THEN <<f[1], obj.v>>
       ELSE PushOk(f[1], obj)

StepCall ==
    /\ Fetch(OpCall)
    /\ LET argsCount == Operand8
           r == StackRead(svm, svm.sp - 1 - argsCount)
           fn == r[2]
       IN IF r[1].fault # "" THEN Finish(r[1], "")
          ELSE IF fn.t = "CLOSURE"
          THEN Finish(AdvanceIp(CallClosure(svm, fn, argsCount), 2), "")
          ELSE IF fn.t = "BUILTIN_FUNCTION"
          THEN LET b == CallBuiltin(svm, fn, argsCount)
               IN IF b[2] # "" THEN Finish(b[1], b[2]) ELSE Finish(AdvanceIp(b[1], 2), "")
          ELSE Finish(svm, "not a callable object")

StepGetCurrentClosure ==
    /\ Fetch(OpGetCurrentClosure)
    /\ Finish(AdvanceIp(push(svm, activeFrame.closure)[1], 1), "")

\* a variant of ReturnValue that does not clean up the activation record
ReturnValueKeepSp(s) ==
    LET r == pop(s)
    IN push(popFrame(r[1]), r[2])[1]

\* OpReturnValue
ReturnValue(s) ==
    LET r == pop(s)
        s2 == popFrame([r[1] EXCEPT !.sp = s.frames[s.activeFrameIdx + 1].bp])
    IN push(s2, r[2])[1]

StepReturnValue ==
    /\ Fetch(OpReturnValue)
    /\ Finish(ReturnValue(svm), "")

Next ==
    \/ Start
    \/ RunReturn
    \/ RunFrameFault
    \/ StepPush
    \/ StepPushTrue
    \/ StepPushFalse
    \/ StepPushNull
    \/ StepBinary
    \/ StepUnary
    \/ StepJumpIfFalse
    \/ StepJump
    \/ StepSetLocal
    \/ StepSetGlobal
    \/ StepGetLocal
    \/ StepGetGlobal
    \/ StepGetBuiltIn
    \/ StepGetFree
    \/ StepArray
    \/ StepHash
    \/ StepIndex
    \/ StepClosure
    \/ StepCall
    \/ StepGetCurrentClosure
    \/ StepReturnValue

Spec == Init /\ [][Next]_vars

(***************************************************************************)
(* Properties.  A step of Run is a step taken while the loop condition     *)
(* holds; Stepped(op) says the step at hand is the iteration that fetched  *)
(* op from the active frame.                                               *)
(***************************************************************************)
Stepped(op) ==
    /\ status = "running"
    /\ FrameOk
    /\ activeFrame.ip < Len(activeIns)
    /\ ByteAt(activeIns, activeFrame.ip) = op
    /\ svm' # svm

\* the value Run leaves on top of the stack
Result == Top(svm)[2]

\* the session being run is the single program prog
Running(prog) == Sessions[session] = <<prog>>

\* the callee slot of the OpCall about to execute
CalleeSlot == svm.sp - 1 - Operand8
Callee == StackRead(svm, CalleeSlot)[2]

\* the frames live before and after the step
LiveFrames ==
    1..((IF svm.activeFrameIdx < svm'.activeFrameIdx
         THEN svm.activeFrameIdx ELSE svm'.activeFrameIdx) + 1)

\* C1: an OpCall on a Closure pushes a frame whose bp is the callee's slot,
\* sp_before - 1 - argc; no step changes the bp of a live frame; and
\* OpReturnValue in a called frame leaves sp = bp + 1 (= sp_before - argc of the
\* call) with the returned value in slot bp, the slot the callee occupied.
C1_CallReturnFrame ==
    [][ /\ (Stepped(OpCall) /\ Callee.t = "CLOSURE" /\ svm'.fault = "") =>
              /\ svm'.activeFrameIdx = svm.activeFrameIdx + 1
              /\ svm'.frames[svm'.activeFrameIdx + 1].bp = svm.sp - 1 - Operand8
              /\ svm'.frames[svm'.activeFrameIdx + 1].closure = Callee
              /\ ArrayGet(svm'.stack, CalleeSlot) = Callee
        /\ (Stepped(OpReturnValue) /\ svm.activeFrameIdx >= 1 /\ svm'.fault = "") =>
              /\ svm'.activeFrameIdx = svm.activeFrameIdx - 1
              /\ svm'.sp = activeFrame.bp + 1
              /\ ArrayGet(svm'.stack, activeFrame.bp) = Result
        /\ (status = "running" /\ FrameOk /\ svm'.activeFrameIdx >= 0) =>
              \A i \in LiveFrames : svm'.frames[i].bp = svm.frames[i].bp
      ]_vars

\* C1 witness: add(a, b) has returned into the main frame, a + b in slot 0
C1_Returned ==
    /\ status = "running"
    /\ opcode = OpReturnValue
    /\ svm.activeFrameIdx = 0
    /\ svm.sp = 1
    /\ \E a, b \in Ints : Running(ProgAdd(a, b)) /\ Result = Integer(a + b)

\* the opcodes whose case of Run pushes one value and pops none
PushOps ==
    {OpPush, OpPushTrue, OpPushFalse, OpPushNull, OpGetLocal, OpGetGlobal,
     OpGetBuiltIn, OpGetFree, OpGetCurrentClosure}

\* C2: an instruction that pushes while sp is at StackSize makes Run return
\* the stack-overflow error.
C2_StackOverflowIsError ==
    [][ ((\E op \in PushOps : Stepped(op)) /\ svm.sp >= StackSize) =>
            (status' = "error" /\ err' = "stack overflow") ]_vars

\* C3: Run never panics with the frame array full, that is, a call that needs
\* more than FramesSize frames does not index the array past its end.
C3_FrameOverflowIsError ==
    ~(status = "panic" /\ svm.activeFrameIdx + 1 >= FramesSize)

\* C4: the active frame index is never negative, so the loop condition of Run
\* never indexes the frame array below its start.
C4_ActiveFrameNonNegative == svm.activeFrameIdx >= 0

\* the number of operand bytes Make writes after the opcode op
OperandWidth(op) ==
    IF op \in TwoByteOps THEN 2
    ELSE IF op \in OneByteOps THEN 1
    ELSE IF op = OpClosure THEN 3
    ELSE 0

\* the offsets at which the instructions of ins start, decoding from off
RECURSIVE InsStarts(_, _)
InsStarts(ins, off) ==
    IF off >= Len(ins) THEN {}
    ELSE {off} \cup InsStarts(ins, off + 1 + OperandWidth(ByteAt(ins, off)))

\* the opcodes that occur in ins
Opcodes(ins) == {ByteAt(ins, off) : off \in InsStarts(ins, 0)}

\* the operands of the OpJump and OpJumpIfFalse instructions of ins
JumpTargets(ins) ==
    {ReadUint16(ins, off + 1) :
        off \in {o \in InsStarts(ins, 0) : ByteAt(ins, o) \in {OpJump, OpJumpIfFalse}}}

\* Compile has just succeeded on the current input
AfterCompile == status = "running" /\ opcode = -1

\* the instruction arrays of the compilation scopes: the main scope and the
\* scope of every function literal, kept in its CompiledFunction
CompiledScopes ==
    {Output(compiler).Instructions} \cup
    {compiler.constantPool[i].Instructions :
        i \in {j \in 1..Len(compiler.constantPool) :
                  compiler.constantPool[j].t = "COMPILED_FUNCTION"}}

FreeCount == ByteAt(activeIns, activeFrame.ip + 3)
\* the Closure the step allocated
NewClosure == svm'.closures[Len(svm'.closures)]

\* C6: OpClosure allocates one Closure whose FreeStore has as many entries as
\* the free-count operand says, pops exactly that many values and pushes the
\* closure, leaving the rest of the stack as it was.
C6_FreeStoreLength ==
    [][ (Stepped(OpClosure) /\ svm'.fault = "") =>
            /\ Len(svm'.closures) = Len(svm.closures) + 1
            /\ Len(NewClosure.FreeStore) = FreeCount
            /\ NewClosure.Fn = Operand16
            /\ svm'.sp = svm.sp - FreeCount + 1
            /\ ArrayGet(svm'.stack, svm'.sp - 1) = ClosureRef(Len(svm'.closures))
            /\ \A i \in 0..(svm.sp - FreeCount - 1) :
                  ArrayGet(svm'.stack, i) = ArrayGet(svm.stack, i)
      ]_vars

\* C6 witness: OpClosure has just pushed a closure with three free values
C6_ClosureMade ==
    /\ status = "running"
    /\ opcode = OpClosure
    /\ Result.t = "CLOSURE"
    /\ Len(FreeStoreOf(svm, Result)) = 3

\* the log entries of the function literal compiled into constant idx
FnEntries(idx) ==
    {e \in {compiler.fns[i] : i \in 1..Len(compiler.fns)} : e.constIdx = idx}

\* the value the enclosing scope's symbol has in the active frame
ValueInFrame(symbol) ==
    IF symbol.Scope = LOCAL_ THEN StackRead(svm, activeFrame.bp + 1 + symbol.Index)[2]
    ELSE IF symbol.Scope = FREE
    THEN FreeStoreOf(svm, activeFrame.closure)[symbol.Index + 1]
    ELSE Nil

\* C7: when OpClosure executes for a function literal whose table recorded the
\* free symbols f_0..f_{k-1}, the new closure's FreeStore[i] is the value f_i
\* has in the enclosing (active) frame, the table resolves the name of f_i to
\* the FREE symbol of index i, and OpGetFree i pushes FreeStore[i] of the
\* active frame's closure.
C7_FreeStoreOrder ==
    [][ /\ (Stepped(OpClosure) /\ svm'.fault = "") =>
              \A e \in FnEntries(Operand16) :
                 LET free == compiler.tables[e.table].freeSymbols
                     store == compiler.tables[e.table].store
                 IN /\ Len(free) = FreeCount
                    /\ \A i \in 1..Len(free) :
                          /\ free[i].Scope \in {LOCAL_, FREE}
                          /\ store[free[i].Name] = Symbol(free[i].Name, i - 1, FREE)
                          /\ NewClosure.FreeStore[i] = ValueInFrame(free[i])
        /\ (Stepped(OpGetFree) /\ svm'.fault = "" /\ svm.sp < StackSize) =>
              /\ svm'.sp = svm.sp + 1
              /\ ArrayGet(svm'.stack, svm.sp) =
                    FreeStoreOf(svm, activeFrame.closure)[Operand8 + 1]
      ]_vars

\* C7 witness: the innermost closure of ProgNested holds x, y, z and w in the
\* order its body first refers to them
C7_CapturedInOrder ==
    /\ status = "running"
    /\ opcode = OpClosure
    /\ Result.t = "CLOSURE"
    /\ \E a, b \in Ints :
          /\ Running(ProgNested(a, b))
          /\ FreeStoreOf(svm, Result) =
                <<Integer(a), Integer(2), Integer(a * 2), Integer(b + a * 2)>>

\* C8: no step changes a Closure that exists, so the value OpGetFree i reads
\* from it is the one captured at OpClosure; in particular a later store to
\* the captured variable in the creating frame, the return of that frame and
\* a second closure made by the same function leave the first one's result.
C8_FreeStoreSnapshot ==
    [][ /\ \A r \in 1..Len(svm.closures) :
              Len(svm'.closures) >= r /\ svm'.closures[r] = svm.closures[r]
        /\ \A a, b \in Ints :
              /\ (Running(ProgSnapshot(a, b)) /\ status' = "done") =>
                    Top(svm')[2] = Integer(a)
              /\ (Running(ProgMakePair(a, b)) /\ status' = "done") =>
                    Top(svm')[2] = Integer(a)
              /\ (Running(ProgAdder(a, b)) /\ status' = "done") =>
                    Top(svm')[2] = Integer(a - b)
      ]_vars

\* C8 witness: g() has returned the captured a although x was set to b # a
C8_SnapshotKept ==
    /\ status = "done"
    /\ \E a, b \in Ints : a # b /\ Running(ProgSnapshot(a, b)) /\ Result = Integer(a)

\* C9: after `let x = x + 1` in a function body, x reads as the old x plus
\* one, both when x is a parameter of that function and when x was captured
\* from the enclosing function.
C9_LetRebinds ==
    \A a \in Ints :
        /\ (Running(ProgLetParam(a)) /\ status = "done") => Result = Integer(a + 1)
        /\ (Running(ProgLetCaptured(a)) /\ status = "done") => Result = Integer(a + 1)

\* the programs whose named function refers to itself in its own body
SelfReferring ==
    \/ \E a \in Ints : Running(ProgSum(a))
    \/ \E a, b \in Ints : Running(ProgCountDown(a, b))
    \/ Running(ProgRecurse)
    \/ Running(ProgDeep)

\* C10: the table of a function literal bound by `let NAME = fn` resolves NAME
\* to a FUNCTION symbol, so a reference in the body compiles to
\* OpGetCurrentClosure; OpGetCurrentClosure pushes the closure of the active
\* frame; calling it pushes a frame of that same closure; and the recursive
\* programs compute their results.
C10_SelfReference ==
    [][ /\ AfterCompile =>
              \A i \in 1..Len(compiler.fns) :
                 LET e == compiler.fns[i]
                 IN e.name # "" =>
                       /\ compiler.tables[e.table].store[e.name].Scope = FUNCTION
                       /\ (SelfReferring /\ e.name \in {"sum", "countDown", "f", "g"}) =>
                             OpGetCurrentClosure \in
                                Opcodes(compiler.constantPool[e.constIdx + 1].Instructions)
        /\ (Stepped(OpGetCurrentClosure) /\ svm.sp < StackSize) =>
              /\ svm'.sp = svm.sp + 1
              /\ ArrayGet(svm'.stack, svm.sp) = activeFrame.closure
        /\ (Stepped(OpCall) /\ Callee = activeFrame.closure /\ svm'.fault = "") =>
              /\ svm'.frames[svm'.activeFrameIdx + 1].closure = activeFrame.closure
              /\ svm'.frames[svm'.activeFrameIdx + 1].ip = 0
              /\ Deref(svm', activeFrame.closure) = Deref(svm, activeFrame.closure)
        /\ \A a, b \in Ints :
              /\ (Running(ProgSum(a)) /\ status' = "done") =>
                    Top(svm')[2] = Integer((a * (a + 1)) \div 2)
              /\ (Running(ProgCountDown(a, b)) /\ status' = "done") =>
                    Top(svm')[2] = Integer(b)
      ]_vars

\* C10 witness: sum(a) has recursed at least twice and returned a(a+1)/2
C10_Recursed ==
    /\ status = "done"
    /\ \E a \in Ints : a >= 2 /\ Running(ProgSum(a)) /\ Result = Integer((a * (a + 1)) \div 2)

\* the names of table t that have the given scope
NamesOfScope(t, scope) ==
    {n \in DOMAIN compiler.tables[t].store : compiler.tables[t].store[n].Scope = scope}

\* C11: the NumLocals of every compiled function is the number of LOCAL
\* symbols (parameters included) of the function's table; FREE symbols and
\* the function's own name are not counted.
C11_NumLocalsCountsLocals ==
    AfterCompile =>
        \A i \in 1..Len(compiler.fns) :
            compiler.constantPool[compiler.fns[i].constIdx + 1].NumLocals
                = Cardinality(NamesOfScope(compiler.fns[i].table, LOCAL_))

\* the tables of the functions compiled so far
FunctionTables == {compiler.fns[i].table : i \in 1..Len(compiler.fns)}

\* the indexes that table t gives its LOCAL symbols
LocalIndexes(t) == {compiler.tables[t].store[n].Index : n \in NamesOfScope(t, LOCAL_)}

\* C12: the locals of a function are numbered 0, 1, 2, ... without gaps,
\* each Define having allocated the number of LOCAL symbols defined before.
C12_LocalsDense ==
    AfterCompile =>
        \A t \in FunctionTables :
            LocalIndexes(t) = 0..(Cardinality(NamesOfScope(t, LOCAL_)) - 1)

\* the names the compiled tables and the builtins know, and one nobody defined
KnownNames ==
    UNION {DOMAIN compiler.tables[t].store : t \in 1..Len(compiler.tables)}
        \cup DOMAIN builtInSymbols \cup {"undefined"}

\* Lookup of n1, then n2, then n1 again from a new table nested in table t:
\* what the enclosing table resolves n1 to, and the three results
NestedLookups(t, n1, n2) ==
    LET nested == Len(compiler.tables) + 1
        t0 == Append(compiler.tables, NewSymbolTable(t))
        enclosing == Lookup(t0, t, n1)
        r1 == Lookup(t0, nested, n1)
        r2 == Lookup(r1[1], nested, n2)
        r3 == Lookup(r2[1], nested, n1)
    IN [nested |-> nested, enclosing |-> enclosing[2], found |-> enclosing[3],
        first |-> r1, second |-> r2, again |-> r3]

\* the names of the free symbols of a table, in order
FreeNames(table) == [i \in 1..Len(table.freeSymbols) |-> table.freeSymbols[i].Name]

\* C13: a name the enclosing table resolves to LOCAL or FREE comes back as a
\* FREE symbol whose index is its position in free_symbols, where the
\* enclosing symbol is recorded once: looking it up again, also after another
\* lookup, returns the same symbol and leaves free_symbols unchanged.  A name
\* resolving to GLOBAL or BUILTIN comes back unchanged and is not recorded.
\* The tables the compiler built obey the same rule.
C13_LookupPromotesOnce ==
    AfterCompile =>
        /\ \A t \in 1..Len(compiler.tables) : \A n1, n2 \in KnownNames :
              LET l == NestedLookups(t, n1, n2)
                  mine == l.first[1][l.nested]
              IN /\ (l.found /\ l.enclosing.Scope \in {LOCAL_, FREE}) =>
                       /\ l.first[2] = Symbol(n1, 0, FREE)
                       /\ l.first[3]
                       /\ mine.freeSymbols = <<l.enclosing>>
                       /\ l.again[2] = l.first[2]
                       /\ l.again[1] = l.second[1]
                       /\ LET last == l.again[1][l.nested]
                          IN /\ \A i \in 1..Len(last.freeSymbols) :
                                   last.store[last.freeSymbols[i].Name]
                                       = Symbol(last.freeSymbols[i].Name, i - 1, FREE)
                             /\ \A i, j \in 1..Len(last.freeSymbols) :
                                   last.freeSymbols[i].Name = last.freeSymbols[j].Name => i = j
                 /\ (l.found /\ l.enclosing.Scope \in {GLOBAL, BUILTIN}) =>
                       /\ l.first[2] = l.enclosing
                       /\ l.first[3]
                       /\ mine = NewSymbolTable(t)
                       /\ l.first[1] = Append(compiler.tables, NewSymbolTable(t))
        /\ \A t \in FunctionTables :
              LET table == compiler.tables[t]
              IN /\ \A i \in 1..Len(table.freeSymbols) :
                       /\ table.store[table.freeSymbols[i].Name]
                              = Symbol(table.freeSymbols[i].Name, i - 1, FREE)
                       /\ table.freeSymbols[i].Scope \in {LOCAL_, FREE}
                       /\ \A j \in 1..Len(table.freeSymbols) :
                              table.freeSymbols[i].Name = table.freeSymbols[j].Name => i = j
                 /\ \A n \in NamesOfScope(t, FREE) :
                       \E i \in 1..Len(table.freeSymbols) : table.freeSymbols[i].Name = n

\* the innermost function of ProgThree has captured x, which its enclosing
\* function captured itself, and y, a parameter of the enclosing function;
\* a table nested in it finds z LOCAL, x FREE, one GLOBAL and len BUILTIN
C13_Promoted ==
    /\ AfterCompile
    /\ \E a, b \in Ints : Running(ProgThree(a, b))
    /\ \E t \in FunctionTables :
          /\ FreeNames(compiler.tables[t]) = <<"x", "y">>
          /\ compiler.tables[t].freeSymbols[1].Scope = FREE
          /\ compiler.tables[t].freeSymbols[2].Scope = LOCAL_
          /\ NestedLookups(t, "z", "x").again[2] = Symbol("z", 0, FREE)
          /\ NestedLookups(t, "z", "x").second[2] = Symbol("x", 1, FREE)
          /\ NestedLookups(t, "one", "len").first[2] = Symbol("one", 0, GLOBAL)
          /\ NestedLookups(t, "one", "len").second[2] = Symbol("len", 0, BUILTIN)

\* the operands of the OpHash instructions of ins
HashOperands(ins) ==
    {ReadUint16(ins, off + 1) : off \in {o \in InsStarts(ins, 0) : ByteAt(ins, o) = OpHash}}

\* the instructions compiled for the main scope
MainInstructions == compiler.scopes[1].instructions

JoinPoints(ins) ==
    {ReadUint16(ins, off + 1) : off \in {o \in InsStarts(ins, 0) : ByteAt(ins, o) = OpJump}}

\* Run is at the join point of an if-expression of the main program
AtJoin ==
    /\ status = "running"
    /\ FrameOk
    /\ svm.activeFrameIdx = 0
    /\ activeFrame.ip \in JoinPoints(activeIns)

\* C15: at the join point of an if-expression the taken arm has left exactly
\* one value above the tested condition value, whatever the blocks hold.  The
\* programs are one if-expression on an empty stack, so the height is 2.
C15_ArmsLeaveOneValue ==
    \A a, b \in Ints :
        ((Running(ProgIf(a, b)) \/ Running(ProgIfArms(a, b))) /\ AtJoin) => svm.sp = 2

\* C16: for two Null operands OpEqual pushes TRUE and OpNotEqual pushes
\* FALSE, and no error is returned.
C16_NullEquality ==
    [][ \A op \in {OpEqual, OpNotEqual} :
          (/\ Stepped(op)
           /\ svm.sp >= 2
           /\ ArrayGet(svm.stack, svm.sp - 1) = NULL
           /\ ArrayGet(svm.stack, svm.sp - 2) = NULL) =>
              /\ status' = "running"
              /\ svm'.sp = svm.sp - 1
              /\ Top(svm')[2] = getBooleanObject(op = OpEqual)
      ]_vars

\* the bytecode of prog compiled on its own
Compiled(prog) == Output(Compile(New(<<NewSymbolTable(0)>>, 1, << >>), prog))

\* C17: `a < b` leaves the same Boolean as `b > a`: it compiles to the same
\* bytecode (right operand, left operand, OpGT), both leave the Boolean a < b,
\* and OpGT pushes TRUE exactly when the value pushed first is greater than
\* the value pushed second.
C17_LessIsSwappedGreater ==
    [][ /\ \A a, b \in Ints :
              /\ (AfterCompile /\ Running(ProgLess(a, b))) =>
                    /\ Output(compiler) = Compiled(ProgGreater(b, a))
                    /\ Output(compiler).Instructions = Make(OpPush, <<0>>) \o Make(OpPush, <<1>>) \o Make(OpGT, << >>)
                    /\ Output(compiler).ConstantPool = <<Integer(b), Integer(a)>>
              /\ (status' = "done" /\ Running(ProgLess(a, b))) => Top(svm')[2] = getBooleanObject(a < b)
              /\ (status' = "done" /\ Running(ProgGreater(b, a))) => Top(svm')[2] = getBooleanObject(a < b)
        /\ (/\ Stepped(OpGT)
            /\ svm.sp >= 2
            /\ ArrayGet(svm.stack, svm.sp - 1).t = "INTEGER"
            /\ ArrayGet(svm.stack, svm.sp - 2).t = "INTEGER") =>
              /\ status' = "running"
              /\ svm'.sp = svm.sp - 1
              /\ Top(svm')[2] = getBooleanObject(ArrayGet(svm.stack, svm.sp - 2).v > ArrayGet(svm.stack, svm.sp - 1).v)
      ]_vars

\* `a < b` has run to the end and left TRUE
C17_LessTrue ==
    /\ status = "done"
    /\ opcode = OpGT
    /\ \E a, b \in Ints : a < b /\ Running(ProgLess(a, b)) /\ Result = TRUE_

\* Run is about to execute an instruction with opcode op
Fetching(op) ==
    /\ status = "running"
    /\ FrameOk
    /\ activeFrame.ip < Len(activeIns)
    /\ ByteAt(activeIns, activeFrame.ip) = op

\* the operands of the binary operation about to execute
Left == ArrayGet(svm.stack, svm.sp - 2)
Right == ArrayGet(svm.stack, svm.sp - 1)

SampleArgs ==
    << << >>, <<Array(<<Integer(1), Integer(2)>>)>>, <<String("ab")>>,
       <<Array(<<Integer(1)>>), Integer(2)>>, <<Integer(1)>> >>

\* C19: the index the symbol table gives a builtin name selects the VM table
\* entry that implements that name, and OpGetBuiltIn <index> pushes that
\* entry; a program that defines no such name resolves each of the six names
\* to its builtin and calling them gives the builtin's result; a name the
\* user defined, in the same or an enclosing scope, resolves to the user's
\* definition.
C19_BuiltinIndexes ==
    [][ /\ \A n \in DOMAIN builtInSymbols : \A i \in 1..Len(SampleArgs) :
              /\ builtInSymbols[n].Index \in 0..5
              /\ builtInSymbols[n].Scope = BUILTIN
              /\ builtInFunctions(builtInSymbols[n].Index, SampleArgs[i]) = BuiltinFunctions(n, SampleArgs[i])
        /\ Stepped(OpGetBuiltIn) =>
              /\ svm'.sp = svm.sp + 1
              /\ Top(svm')[2] = BuiltinFunction(Operand8)
        /\ \A a, b \in Ints :
              /\ (AfterCompile /\ Running(ProgBuiltins(a, b))) =>
                    \A n \in DOMAIN builtInSymbols : \A t \in 1..Len(compiler.tables) :
                        Lookup(compiler.tables, t, n)[2] = builtInSymbols[n]
              /\ (status' = "done" /\ Running(ProgBuiltins(a, b))) =>
                    Top(svm')[2] = Array(<< Integer(2), Integer(a), Integer(b), Array(<<Integer(b)>>),
                                            Array(<<Integer(a), Integer(b), Integer(1)>>), NULL >>)
              /\ (AfterCompile /\ Running(ProgShadow(a, b))) =>
                    /\ Lookup(compiler.tables, 1, "len")[2] = Symbol("len", 0, GLOBAL)
                    /\ \A t \in FunctionTables :
                          /\ Lookup(compiler.tables, t, "len")[2].Scope \in {GLOBAL, FUNCTION}
                          /\ "first" \in DOMAIN compiler.tables[t].store =>
                                compiler.tables[t].store["first"].Scope \in {LOCAL_, FREE}
                    /\ OpGetBuiltIn \notin UNION {Opcodes(compiler.constantPool[i].Instructions) :
                            i \in {k \in 1..Len(compiler.constantPool) : compiler.constantPool[k].t = "COMPILED_FUNCTION"}}
                    /\ OpGetBuiltIn \notin Opcodes(MainInstructions)
              /\ (status' = "done" /\ Running(ProgShadow(a, b))) => Top(svm')[2] = Integer(b + a + a)
      ]_vars

\* the six builtins have been called through their indexes
C19_BuiltinsCalled ==
    /\ status = "done"
    /\ \E a, b \in Ints :
          /\ Running(ProgBuiltins(a, b))
          /\ a # b
          /\ Result = Array(<< Integer(2), Integer(a), Integer(b), Array(<<Integer(b)>>),
                               Array(<<Integer(a), Integer(b), Integer(1)>>), NULL >>)

\* the arguments of the OpCall about to execute, in the order they were pushed
PushedArgs == [i \in 1..Operand8 |-> ArrayGet(svm.stack, svm.sp - Operand8 + i - 1)]

\* C20: OpCall <argc> on a BuiltinFunction passes the argc arguments to the
\* host function in the order they were pushed and pushes no frame; on
\* success the returned value replaces the callee, sp_after = sp_before - argc,
\* the stack below the callee is unchanged and ip moves past the OpCall.
C20_BuiltinCall ==
    [][ (Fetching(OpCall) /\ Callee # Nil /\ Callee.t = "BUILTIN_FUNCTION") =>
            LET returned == builtInFunctions(Callee.v, PushedArgs)
            IN /\ svm'.activeFrameIdx = svm.activeFrameIdx
               /\ \A i \in 1..Len(svm.frames) : i # svm.activeFrameIdx + 1 => svm'.frames[i] = svm.frames[i]
               /\ svm'.closures = svm.closures
               /\ ~IsErrorValue(returned) =>
                     /\ status' = "running"
                     /\ svm'.sp = svm.sp - Operand8
                     /\ ArrayGet(svm'.stack, CalleeSlot) = returned
                     /\ \A i \in 0..(CalleeSlot - 1) : ArrayGet(svm'.stack, i) = ArrayGet(svm.stack, i)
                     /\ svm'.frames[svm.activeFrameIdx + 1] = [activeFrame EXCEPT !.ip = @ + 2]
               /\ IsErrorValue(returned) => (status' = "error" /\ err' = returned.v)
      ]_vars

\* push(arr, 1) has returned: the array [a, b, 1] is where the callee was
C20_PushCalled ==
    /\ status = "running"
    /\ opcode = OpCall
    /\ svm.activeFrameIdx = 0
    /\ svm.sp = 5
    /\ Result.t = "ARRAY"
    /\ \E a, b \in Ints : a # b /\ Running(ProgBuiltins(a, b)) /\ Result.v = <<Integer(a), Integer(b), Integer(1)>>

\* the compiled functions of the constant pool of the compiler
CompiledFunctions ==
    {compiler.constantPool[i] :
        i \in {k \in 1..Len(compiler.constantPool) : compiler.constantPool[k].t = "COMPILED_FUNCTION"}}

\* the offset of the last instruction of ins
LastInsOffset(ins) == CHOOSE o \in InsStarts(ins, 0) : \A p \in InsStarts(ins, 0) : p <= o

\* C21: the instructions of every compiled function end with OpReturnValue;
\* an empty body compiles to exactly OpPushNull, OpReturnValue and its call
\* yields null; a body of one return statement gets no second OpReturnValue;
\* a body ending in an expression statement gets one appended and its call
\* yields that expression's value.
C21_FunctionsEndWithReturn ==
    [][ /\ AfterCompile =>
              \A f \in CompiledFunctions :
                  /\ Len(f.Instructions) >= 1
                  /\ ByteAt(f.Instructions, LastInsOffset(f.Instructions)) = OpReturnValue
                  /\ LastInsOffset(f.Instructions) = Len(f.Instructions) - 1
        /\ \A a, b \in Ints :
              /\ (AfterCompile /\ Running(ProgEmptyFn(a))) =>
                    \A f \in CompiledFunctions :
                        f.Instructions = Make(OpPushNull, << >>) \o Make(OpReturnValue, << >>)
              /\ (AfterCompile /\ Running(ProgReturn(a))) =>
                    \A f \in CompiledFunctions :
                        f.Instructions = Make(OpGetLocal, <<0>>) \o Make(OpReturnValue, << >>)
              /\ (AfterCompile /\ Running(ProgAdd(a, b))) =>
                    \A f \in CompiledFunctions :
                        f.Instructions = Make(OpGetLocal, <<0>>) \o Make(OpGetLocal, <<1>>)
                                             \o Make(OpAdd, << >>) \o Make(OpReturnValue, << >>)
              /\ (status' = "done" /\ Running(ProgEmptyFn(a))) => (Top(svm')[2] = NULL /\ svm'.sp = 1)
              /\ (status' = "done" /\ Running(ProgReturn(a))) => (Top(svm')[2] = Integer(a) /\ svm'.sp = 1)
              /\ (status' = "done" /\ Running(ProgAdd(a, b))) => (Top(svm')[2] = Integer(a + b) /\ svm'.sp = 1)
      ]_vars

\* the call of the function with the empty body has yielded null
C21_EmptyBodyYieldsNull ==
    /\ status = "done"
    /\ opcode = OpReturnValue
    /\ \E a \in Ints : Running(ProgEmptyFn(a))
    /\ svm.sp = 1
    /\ Result = NULL

\* the slots of the stack of the VM in use
OnStack(s) == 0..(s.sp - 1)

\* C22: executing an if-expression runs exactly one arm.  OpJumpIfFalse goes
\* on to the consequence when the tested value is anything other than FALSE
\* and NULL (the integer 0 included) and jumps to its operand otherwise;
\* OpJump after the consequence jumps over the alternative.  With a truthy
\* condition the alternative's value is never pushed and the consequence's
\* value is on top; with a falsy one the consequence's value is never pushed
\* and the alternative's value, or null when there is no else, is on top.
C22_OneArmRuns ==
    [][ /\ Stepped(OpJumpIfFalse) =>
              /\ svm'.activeFrameIdx = svm.activeFrameIdx
              /\ svm'.frames[svm.activeFrameIdx + 1].ip =
                    (IF Top(svm)[2].t = "NULL" \/ (Top(svm)[2].t = "BOOLEAN" /\ Top(svm)[2] = FALSE_)
                     THEN Operand16 ELSE activeFrame.ip + 3)
        /\ Stepped(OpJump) =>
              /\ svm'.frames[svm.activeFrameIdx + 1].ip = Operand16
              /\ svm'.sp = svm.sp
        /\ \A a, b \in Ints :
              /\ (AfterCompile /\ Running(ProgTruthy(a, b))) =>
                    MainInstructions = Make(OpPush, <<0>>) \o Make(OpJumpIfFalse, <<12>>)
                                           \o Make(OpPush, <<1>>) \o Make(OpJump, <<15>>)
                                           \o Make(OpPush, <<2>>)
              /\ Running(ProgTruthy(a, b)) =>
                    /\ \A i \in OnStack(svm') : ArrayGet(svm'.stack, i).t # "STRING"
                    /\ status' = "done" => Top(svm')[2] = Integer(b)
              /\ Running(ProgFalsy(a)) =>
                    /\ \A i \in OnStack(svm') : ArrayGet(svm'.stack, i).t # "INTEGER"
                    /\ status' = "done" => Top(svm')[2] = String("else")
              /\ (status' = "done" /\ Running(ProgIf(a, b))) =>
                    Top(svm')[2] = (IF a > b THEN Integer(10) ELSE NULL)
      ]_vars

\* the condition was the integer 0 and the consequence has run
C22_ZeroIsTruthy ==
    /\ status = "done"
    /\ \E b \in Ints : Running(ProgTruthy(0, b)) /\ Result = Integer(b)
    /\ svm.sp = 2

\* the constant indexes in the OpPush and OpClosure operands of ins
ConstantIndexes(ins) ==
    {ReadUint16(ins, off + 1) :
        off \in {o \in InsStarts(ins, 0) : ByteAt(ins, o) \in {OpPush, OpClosure}}}

\* C23: the constant pool is append-only.  addConstant appends and returns
\* the old length; a compilation, on an empty pool or on the pool an earlier
\* input left, keeps every entry it started from at its index; and every
\* constant index in the OpPush and OpClosure operands of the top-level
\* stream and of every compiled function is below the length of the pool
\* Output returns.
C23_ConstantPoolAppendOnly ==
    [][ /\ AfterCompile =>
              /\ \A i \in ConstantIndexes(MainInstructions) : i < Len(Output(compiler).ConstantPool)
              /\ \A f \in CompiledFunctions :
                    \A i \in ConstantIndexes(f.Instructions) : i < Len(Output(compiler).ConstantPool)
              /\ addConstant(compiler, Integer(7))[1].constantPool = Append(compiler.constantPool, Integer(7))
              /\ addConstant(compiler, Integer(7))[2] = Len(compiler.constantPool)
              /\ svm.constantPool = Output(compiler).ConstantPool
        /\ (line' = line + 1 /\ status' = "running") =>
              /\ Len(constantPool') >= Len(constantPool)
              /\ SubSeq(constantPool', 1, Len(constantPool)) = constantPool
              /\ constantPool' = Output(compiler').ConstantPool
      ]_vars

\* the second input of a session has been compiled onto the pool the first
\* one left: its constants follow the first input's
C23_PoolExtended ==
    /\ AfterCompile
    /\ Sessions[session] = <<ProgTypeError(1), ProgAdd(1, 2)>>
    /\ line = 2
    /\ Len(constantPool) = 4
    /\ constantPool[1] = Integer(1)
    /\ constantPool[3] = Integer(1)
    /\ constantPool[4] = Integer(2)
    /\ ConstantIndexes(MainInstructions) = {1, 2, 3}

\* the AST n contains a hash literal
RECURSIVE HasHashLiteral(_)
HasHashLiteral(n) ==
    n.kind = "HashLiteral" \/ \E i \in 1..Len(n.kids) : HasHashLiteral(n.kids[i])

\* what a fresh compiler, whose map iterations take the given order, outputs
\* for prog: the bytecode, or the error of Compile
FreshOutput(prog, order) ==
    LET c == Compile([New(<<NewSymbolTable(0)>>, 1, << >>) EXCEPT !.rangeOrder = order], prog)
    IN IF c.err # "" THEN [err |-> c.err] ELSE Output(c)

\* the input taken last
Input == Sessions[session][line]

\* ExpandMacro panicked on the input taken last: the process ended before a
\* StackVM was made for it
ExpansionFaulted == status = "panic" /\ svm.fault = ""

\* ExpandMacro returned an AST for the input taken last
Expanded == line >= 1 /\ status # "expand_error" /\ ~ExpansionFaulted

\* the first input of the session
FirstInput == Sessions[session][1]

RECURSIVE MacroCallIn(_)
MacroCallIn(n) ==
    isMacroCallExpression(n, macroEnv) \/ \E i \in 1..Len(n.kids) : MacroCallIn(n.kids[i])

\* C25: after ExpandMacro succeeds the output AST holds no call expression
\* whose callee is an identifier bound to a macro, wherever the call stood in
\* the input.  (No input calls a macro before the statement that defines it.)
C25_NoMacroCallRemains == Expanded => ~MacroCallIn(expandedAST)

\* the names of the statements `let NAME = macro(params){body}` of n, at any
\* depth outside a macro body
RECURSIVE MacroDefinitionsIn(_)
MacroDefinitionsIn(n) ==
    IF isMacroDefinition(n) THEN {n.name}
    ELSE UNION {MacroDefinitionsIn(n.kids[i]) : i \in 1..Len(n.kids)}

NotMacroDefinition(stmt) == ~isMacroDefinition(stmt)
RECURSIVE StatementKeys(_)
StatementKeys(stmts) ==
    IF stmts = << >> THEN << >>
    ELSE <<<<Head(stmts).kind, Head(stmts).name>>>> \o StatementKeys(Tail(stmts))

\* C26: every statement `let NAME = macro(params){body}` of the input, at
\* the top level or nested in an if arm or a function body, is absent from the
\* AST ExpandMacro returns and NAME is bound to a Macro in the macro
\* environment; the other top-level statements keep their order.
C26_DefinitionsElided ==
    Expanded =>
        /\ MacroDefinitionsIn(expandedAST) = {}
        /\ \A name \in MacroDefinitionsIn(Input) : Get(macroEnv, name).t = "MACRO"
        /\ StatementKeys(expandedAST.kids) = StatementKeys(SelectSeq(Input.kids, NotMacroDefinition))

IsUnquote(n) == n.kind = "CallExpression" /\ n.kids[1] = Id("unquote") /\ Len(n.kids) = 2

\* every unquote of n is the unquote of one of the parameters
RECURSIVE UnquotesParameters(_, _)
UnquotesParameters(n, params) ==
    IF IsUnquote(n)
    THEN n.kids[2].kind = "Identifier" /\ \E i \in 1..Len(params) : params[i] = n.kids[2]
    ELSE \A i \in 1..Len(n.kids) : UnquotesParameters(n.kids[i], params)

\* n with every unquote(p) of a parameter p replaced by the argument given for p
RECURSIVE Substitute(_, _, _), SubstituteEach(_, _, _)
SubstituteEach(nodes, params, args) ==
    IF nodes = << >> THEN << >>
    ELSE <<Substitute(Head(nodes), params, args)>> \o SubstituteEach(Tail(nodes), params, args)
Substitute(n, params, args) ==
    IF IsUnquote(n)
    THEN args[CHOOSE i \in 1..Len(params) : params[i] = n.kids[2]]
    ELSE [n EXCEPT !.kids = SubstituteEach(n.kids, params, args)]

\* prog is `let NAME = macro(params) { quote(q) }; NAME(args)` with one argument
\* for each parameter, where q unquotes nothing but parameters
IsMacroUse(prog) ==
    /\ Len(prog.kids) = 2
    /\ isMacroDefinition(prog.kids[1])
    /\ LET body == prog.kids[1].kids[1].kids[2].kids
           params == prog.kids[1].kids[1].kids[1].kids
           use == prog.kids[2]
       IN /\ Len(body) = 1
          /\ body[1].kind = "ExpressionStatement"
          /\ body[1].kids[1].kind = "CallExpression"
          /\ body[1].kids[1].kids[1] = Id("quote")
          /\ Len(body[1].kids[1].kids) = 2
          /\ UnquotesParameters(body[1].kids[1].kids[2], params)
          /\ use.kind = "ExpressionStatement"
          /\ use.kids[1].kind = "CallExpression"
          /\ use.kids[1].kids[1] = Id(prog.kids[1].name)
          /\ Len(use.kids[1].kids) - 1 = Len(params)
QuotedBody(prog) == prog.kids[1].kids[1].kids[2].kids[1].kids[1].kids[2]
ParametersOf(prog) == prog.kids[1].kids[1].kids[1].kids
ArgumentsOf(prog) == Tail(prog.kids[2].kids[1].kids)

\* C27: the expansion of a macro call is the quoted body with every
\* unquote(p) of a parameter p replaced by the AST of the argument given for p,
\* unevaluated, and it stands where the call stood.
C27_UnquoteSubstitutesArguments ==
    (Expanded /\ IsMacroUse(Input)) =>
        expandedAST = Program(<<Es(Substitute(QuotedBody(Input), ParametersOf(Input),
                                              ArgumentsOf(Input)))>>)

\* C28: an unquote whose argument evaluates to neither an Integer nor a Quote
\* becomes a nil node and the expansion returns an AST or an error: it never
\* panics.
C28_ExpansionNeverFaults == ~ExpansionFaulted

\* C29: Run returns nil only where the active frame is the main frame and its
\* ip is the length of the top-level instructions: no called function's frame
\* is still active when Run stops.
C29_RunEndsInMainFrame ==
    status = "done" => (svm.activeFrameIdx = 0 /\ activeFrame.ip = Len(MainInstructions))

\* C30: a reference to a let-bound function's name from a function literal
\* nested in that function's body evaluates to the closure of the named
\* function: in ProgSelfName the nested function returns the closure the
\* global f holds.
C30_NestedNameIsEnclosingClosure ==
    \A a \in Ints :
        (Running(ProgSelfName(a)) /\ status = "done") => Result = ArrayGet(svm.globals, 0)

\* C31: the code of an expression run from sp = s ends with sp = s + 1 and the
\* value at stack[s]: an if-expression that is the whole program leaves one
\* value, and as the right operand of + it gives what its taken arm gives.
C31_ExpressionLeavesOneValue ==
    \A a, b \in Ints :
        /\ (Running(ProgTruthy(a, b)) /\ status = "done") => svm.sp = 1
        /\ (Running(ProgIfOperand(a, b)) /\ status \in {"done", "error", "panic"}) =>
               (status = "done" /\ Result.t = "INTEGER" /\ Result = Integer(a + b))

\* C32: a let statement in a function body changes only the binding of its
\* own name: the parameter p read after `let y = a`, and after `let x = x + 1`
\* where x was captured from the enclosing function, is still the argument.
C32_LetChangesOnlyItsName ==
    \A a, b \in Ints :
        /\ (Running(ProgLetBesideLocal(a, b)) /\ status = "done") => Result = Integer(b)
        /\ (Running(ProgLetBesideParam(a, b)) /\ status = "done") => Result = Integer(b)

\* NumLocals of the function frame f (1-based) runs
NumLocalsOf(f) == FnOf(svm, svm.frames[f].closure).NumLocals

\* the stack slot of local i of frame f
LocalSlot(f, i) == svm.frames[f].bp + 1 + i

\* C33: local slots are private to their frame.  OpGetLocal i pushes the
\* content of slot bp + 1 + i of the active frame and OpSetLocal i stores the
\* popped value there, with i < NumLocals of the frame's function; an OpCall on
\* a closure leaves the arguments in slots bp + 1 .. bp + argc of the new frame
\* and sets sp above bp + NumLocals; and no other step (a temporary, a callee
\* frame, a return) changes slot bp + 1 + i, i < NumLocals, of a live frame.
C33_LocalSlotsArePrivate ==
    [][ /\ Fetching(OpGetLocal) =>
              /\ Operand16 < NumLocalsOf(svm.activeFrameIdx + 1)
              /\ svm'.sp = svm.sp + 1
              /\ ArrayGet(svm'.stack, svm.sp) =
                     ArrayGet(svm.stack, LocalSlot(svm.activeFrameIdx + 1, Operand16))
        /\ Fetching(OpSetLocal) =>
              /\ Operand16 < NumLocalsOf(svm.activeFrameIdx + 1)
              /\ svm'.fault = "" =>
                     ArrayGet(svm'.stack, LocalSlot(svm.activeFrameIdx + 1, Operand16)) = Right
        /\ (Fetching(OpCall) /\ Callee.t = "CLOSURE" /\ svm'.fault = "") =>
              /\ svm'.sp > CalleeSlot + FnOf(svm, Callee).NumLocals
              /\ \A i \in 0..(Operand8 - 1) :
                     ArrayGet(svm'.stack, CalleeSlot + 1 + i) =
                         ArrayGet(svm.stack, svm.sp - Operand8 + i)
        /\ (status = "running" /\ FrameOk /\ svm'.activeFrameIdx >= 0) =>
              \A f \in LiveFrames : \A i \in 0..(NumLocalsOf(f) - 1) :
                  (~(Fetching(OpSetLocal) /\ f = svm.activeFrameIdx + 1 /\ i = Operand16)) =>
                      ArrayGet(svm'.stack, LocalSlot(f, i)) = ArrayGet(svm.stack, LocalSlot(f, i))
      ]_vars

\* the ip of frame f (1-based) of s is the offset of an instruction of the
\* frame's function or the length of its instructions
AtInstruction(s, f) ==
    s.frames[f].ip \in InsStarts(instructions(s, s.frames[f]), 0)
                           \cup {Len(instructions(s, s.frames[f]))}

\* the opcodes after which Run adds the instruction's length to ip
AdvancingOps == (TwoByteOps \cup OneByteOps \cup NoOperandOps \cup {OpClosure})
                    \ {OpJump, OpJumpIfFalse, OpReturnValue}

\* C34: a step that executes an opcode without error moves the ip of the
\* frame that fetched it by 1 + the operand bytes Make writes for the opcode
\* (OpJump and a taken OpJumpIfFalse set it to their operand, OpReturnValue
\* leaves it to the caller); it changes the ip of no other live frame; and the
\* ip of the frame that ran and of the frame that runs next is the offset of
\* the first byte of an instruction or the length of the instructions.
C34_IpAtInstructionStart ==
    [][ /\ \A op \in AdvancingOps :
              (Fetching(op) /\ status' = "running") =>
                  svm'.frames[svm.activeFrameIdx + 1].ip =
                      activeFrame.ip + 1 + OperandWidth(op)
        /\ (Fetching(OpJump) /\ status' = "running") =>
              svm'.frames[svm.activeFrameIdx + 1].ip = Operand16
        /\ (Fetching(OpJumpIfFalse) /\ status' = "running") =>
              svm'.frames[svm.activeFrameIdx + 1].ip \in {Operand16, activeFrame.ip + 3}
        /\ (status = "running" /\ FrameOk) =>
              /\ AtInstruction(svm', svm.activeFrameIdx + 1)
              /\ svm'.activeFrameIdx >= 0 =>
                     \A f \in LiveFrames :
                         f # svm.activeFrameIdx + 1 => svm'.frames[f].ip = svm.frames[f].ip
        /\ (status' \in {"running", "done", "error"} /\ svm'.activeFrameIdx >= 0
              /\ svm'.activeFrameIdx < FramesSize) =>
              AtInstruction(svm', svm'.activeFrameIdx + 1)
      ]_vars

\* C34 witness: a called function has executed the four bytes of an OpClosure
\* and its ip is at the next instruction
C34_PastClosure ==
    /\ status = "running"
    /\ opcode = OpClosure
    /\ svm.activeFrameIdx >= 1
    /\ activeFrame.ip >= 4
    /\ activeFrame.ip < Len(activeIns)
    /\ ByteAt(activeIns, activeFrame.ip - 4) = OpClosure
    /\ activeFrame.ip \in InsStarts(activeIns, 0)

\* C35: in every state of Run 0 <= sp <= StackSize, also right after OpCall
\* has added the callee's NumLocals, and no instruction reads or writes a
\* stack slot outside 0 .. StackSize - 1.
C35_StackPointerInRange ==
    /\ svm.sp >= 0
    /\ svm.sp <= StackSize
    /\ svm.fault # "stack index out of range"

\* C36: the left operand of an infix expression executes before the right
\* one, for `<` as for `>`: when the left operand `a + true` and the right
\* operand `a(2)` would both fail, Run returns the left operand's error.
C36_LeftOperandFirst ==
    \A a \in Ints :
        ((Running(ProgGreaterBothFail(a)) \/ Running(ProgLessBothFail(a)))
            /\ status \in {"done", "error", "panic"}) =>
                (status = "error" /\ err = "incompatible types")

\* C37: a Compile that returns an error leaves the symbol table shared by the
\* inputs exactly as it was before the call, also for `let f = fn() { x }`
\* with x undefined.
C37_FailedCompileKeepsSymbols ==
    [][ status' = "compile_error" => symTable' = symTable ]_vars

====
